---- MODULE Spec2Model ----
(***************************************************************************)
(* A model of the file difference checker: the tabular engine              *)
(* (src/src/core/excel_diff.py), the document engine                       *)
(* (src/src/core/pdf_diff.py) and the dispatcher (src/src/core/runner.py). *)
(*                                                                         *)
(* Text is a sequence of one-character strings.  A cell value is a record  *)
(* [k, s]: k is "none" (Python None), "str" (a str, s its characters) or   *)
(* "num" (an int or float, s the characters of its str()).                 *)
(* A Python dict is a sequence of entries in insertion order.              *)
(***************************************************************************)
EXTENDS Integers, Sequences, FiniteSets, TLC

\* ------------------------------------------------------------------ text

None == [k |-> "none", s |-> <<>>]
S(t) == [k |-> "str", s |-> t]
N(t) == [k |-> "num", s |-> t]

\* isinstance(v, str)
IsStr(v) == v.k = "str"

\* Python truthiness of a cell value: None and "" are false, 0 is false.
Truthy(v) ==
  CASE v.k = "none" -> FALSE
    [] v.k = "str" -> v.s # <<>>
    [] OTHER -> v.s \notin {<<"0">>, <<"0", ".", "0">>}

\* `v in (None, "")`
IsEmptyValue(v) == v.k = "none" \/ (v.k = "str" /\ v.s = <<>>)

\* str(v), for a str or a number (every caller tests for None first)
Str(v) == v.s

\* two characters outside ASCII: the capital I with a dot above, a letter, and
\* the combining dot above, a mark (neither \w nor \s)
IDot == "U+0130"
DotAbove == "U+0307"

\* character classes of the re module: \s and \w
IsSpace(ch) == ch \in {" ", "\t"}
IsDigit(ch) == ch \in {"0", "1", "2", "3"}
IsWord(ch) ==
  IsDigit(ch) \/ ch \in {"a", "b", "c", "d", "e", "f", "i", "l", "p", "s", "t", "x",
                         "A", "B", "C", "D", "E", "F", "I", "L", "P", "S", "T", "X", "_",
                         IDot}

\* str.lower(), one character
LowerChar(ch) ==
  CASE ch = "A" -> "a"
    [] ch = "B" -> "b"
    [] ch = "C" -> "c"
    [] ch = "D" -> "d"
    [] ch = "E" -> "e"
    [] ch = "F" -> "f"
    [] ch = "I" -> "i"
    [] ch = "L" -> "l"
    [] ch = "P" -> "p"
    [] ch = "S" -> "s"
    [] ch = "T" -> "t"
    [] ch = "X" -> "x"
    [] OTHER -> ch

\* str.lower(): character by character, except that the capital I with a dot
\* above becomes two characters, i and the combining dot above
RECURSIVE Lower(_)
Lower(t) ==
  IF t = <<>> THEN <<>>
  ELSE (IF t[1] = IDot THEN <<"i", DotAbove>> ELSE <<LowerChar(t[1])>>) \o Lower(Tail(t))

RECURSIVE LStrip(_)
LStrip(t) == IF t # <<>> /\ IsSpace(t[1]) THEN LStrip(Tail(t)) ELSE t

RECURSIVE RStrip(_)
RStrip(t) ==
  IF t # <<>> /\ IsSpace(t[Len(t)]) THEN RStrip(SubSeq(t, 1, Len(t) - 1)) ELSE t

\* str.strip()
Strip(t) == RStrip(LStrip(t))

\* re.sub(r"[^\w\s]", " ", s)
SubPunct(t) ==
  <<>> \o [i \in 1..Len(t) |-> IF IsWord(t[i]) \/ IsSpace(t[i]) THEN t[i] ELSE " "]

\* re.sub(r"\s+", " ", s)
RECURSIVE SubSpaces(_)
SubSpaces(t) ==
  IF t = <<>> THEN <<>>
  ELSE IF IsSpace(t[1]) THEN <<" ">> \o SubSpaces(LStrip(t))
  ELSE <<t[1]>> \o SubSpaces(Tail(t))

\* _normalize_header: None -> "", else punctuation to spaces, whitespace
\* collapsed, stripped, lowercased.  The argument is a value (None or a str).
_normalize_header(v) ==
  IF v.k = "none" THEN <<>> ELSE Lower(Strip(SubSpaces(SubPunct(v.s))))

\* mutant: values compared by the Normalizer
_normalize_key_Normalizer(v) == _normalize_header(IF v.k = "none" THEN v ELSE S(Str(v)))

\* _normalize_key: None -> "", else str(k).strip()
_normalize_key(v) == IF v.k = "none" THEN <<>> ELSE Strip(Str(v))

\* ----------------------------------------------------------------- grids

\* A sheet: max_row, max_column and the cells within them.
Cell(sheet, r, c) ==
  IF r \in 1..sheet.max_row /\ c \in 1..sheet.max_column
  THEN sheet.cells[r][c] ELSE None

\* A sheet from its rows (each a sequence of values of the same length).
MkSheet(rows, ncols) ==
  [max_row |-> IF Len(rows) = 0 THEN 1 ELSE Len(rows),
   max_column |-> ncols,
   cells |-> IF Len(rows) = 0 THEN <<[c \in 1..ncols |-> None]>> ELSE rows]

\* --------------------------------------------------------- header locator

\* `vv and isinstance(vv, str) and vv.strip()`: a non-empty textual cell
IsTextual(v) == Truthy(v) /\ IsStr(v) /\ Strip(v.s) # <<>>

\* the count of textual cells of row r (excel_diff.py:49-53)
TextCount(sheet, r) ==
  Cardinality({cc \in 1..sheet.max_column : IsTextual(Cell(sheet, r, cc))})

\* the candidates (r, c, cnt) of locate_header_row (excel_diff.py:44-54)
Candidates(sheet, key_header_norm) ==
  {<<r, c, TextCount(sheet, r)>> : <<r, c>> \in
     {rc \in (1..sheet.max_row) \X (1..sheet.max_column) :
        LET v == Cell(sheet, rc[1], rc[2])
        IN Truthy(v) /\ IsStr(v) /\ _normalize_header(v) = key_header_norm}}

\* the sort key (-cnt, row, col) compared lexicographically
KeyLess(x, y) ==
  \/ x[3] > y[3]
  \/ x[3] = y[3] /\ x[1] < y[1]
  \/ x[3] = y[3] /\ x[1] = y[1] /\ x[2] < y[2]

\* the first element of a candidate list sorted by (-cnt, row, col)
FirstSorted(cands) == CHOOSE x \in cands : \A y \in cands \ {x} : KeyLess(x, y)

\* locate_header_row: <<row, col>>, or <<0, 0>> for the ValueError
NotFound == <<0, 0>>

\* mutant: the best candidate of the whole sheet, the top rows not preferred
locate_header_row_AnyRow(sheet, key_header_norm, top_rows_prefer) ==
  LET candidates == Candidates(sheet, key_header_norm)
  IN IF candidates = {} THEN NotFound
     ELSE <<FirstSorted(candidates)[1], FirstSorted(candidates)[2]>>

\* mutant: a missing key header falls back to the first cell instead of raising
locate_header_row_Fallback(sheet, key_header_norm, top_rows_prefer) ==
  LET candidates == Candidates(sheet, key_header_norm)
      top_candidates == {t \in candidates : t[1] <= top_rows_prefer}
  IN IF candidates = {} THEN <<1, 1>>
     ELSE IF top_candidates # {}
          THEN <<FirstSorted(top_candidates)[1], FirstSorted(top_candidates)[2]>>
          ELSE <<FirstSorted(candidates)[1], FirstSorted(candidates)[2]>>

locate_header_row(sheet, key_header_norm, top_rows_prefer) ==
  LET candidates == Candidates(sheet, key_header_norm)
      top_candidates == {t \in candidates : t[1] <= top_rows_prefer}
  IN IF candidates = {} THEN NotFound
     ELSE IF top_candidates # {}
          THEN <<FirstSorted(top_candidates)[1], FirstSorted(top_candidates)[2]>>
          ELSE <<FirstSorted(candidates)[1], FirstSorted(candidates)[2]>>

\* ------------------------------------------------------------------ dicts

\* A dict is a sequence of [key, val] in insertion order.
Keys(d) == {d[i].key : i \in 1..Len(d)}
Has(d, k) == k \in Keys(d)
Get(d, k) == (CHOOSE i \in 1..Len(d) : d[i].key = k)
Val(d, k) == d[Get(d, k)].val

\* d[k] = v: a new key is appended, an existing key keeps its place
Put(d, k, v) ==
  IF Has(d, k) THEN [d EXCEPT ![Get(d, k)].val = v]
  ELSE Append(d, [key |-> k, val |-> v])

\* -------------------------------------------------------- header extractor

\* headers_from_row: norm -> [row, col, disp], the left-most cell winning
RECURSIVE HeadersFrom(_, _, _, _)
HeadersFrom(sheet, header_row, c, hdrs) ==
  IF c > sheet.max_column THEN hdrs
  ELSE LET v == Cell(sheet, header_row, c)
           display == Strip(Str(v))
           norm == _normalize_header(S(display))
       IN IF v.k # "none" /\ display # <<>> /\ norm # <<>> /\ ~Has(hdrs, norm)
          THEN HeadersFrom(sheet, header_row, c + 1,
                           Put(hdrs, norm, [row |-> header_row, col |-> c, disp |-> display]))
          ELSE HeadersFrom(sheet, header_row, c + 1, hdrs)

headers_from_row(sheet, header_row) == HeadersFrom(sheet, header_row, 1, <<>>)

\* ------------------------------------------------------------ row key index

\* build_row_dict: the loop over the rows below the header (excel_diff.py:92-95)
RECURSIVE RowDictFrom(_, _, _, _)
RowDictFrom(sheet, r, key_col, row_dict) ==
  IF r > sheet.max_row THEN row_dict
  ELSE LET key == Cell(sheet, r, key_col)
       IN IF ~IsEmptyValue(key)
          THEN RowDictFrom(sheet, r + 1, key_col,
                           Put(row_dict, _normalize_header(S(Str(key))), r))
          ELSE RowDictFrom(sheet, r + 1, key_col, row_dict)

build_row_dict(sheet, header_row, key_col) ==
  RowDictFrom(sheet, header_row + 1, key_col, <<>>)

\* --------------------------------------------------------------- cell differ

\* _safe_eq: equal after _normalize_key and not both empty
_safe_eq(a, b) ==
  IF IsEmptyValue(a) /\ IsEmptyValue(b) THEN FALSE
  ELSE _normalize_key(a) = _normalize_key(b)

\* ----------------------------------------------------------------- _sort_keys

\* ord(ch)
Ord(ch) ==
  CASE ch = "\t" -> 9 [] ch = " " -> 32 [] ch = "-" -> 45 [] ch = "." -> 46
    [] ch = "0" -> 48 [] ch = "1" -> 49 [] ch = "2" -> 50 [] ch = "3" -> 51
    [] ch = "A" -> 65 [] ch = "B" -> 66 [] ch = "C" -> 67 [] ch = "D" -> 68
    [] ch = "I" -> 73 [] ch = "_" -> 95
    [] ch = "a" -> 97 [] ch = "b" -> 98 [] ch = "c" -> 99 [] ch = "d" -> 100
    [] ch = "e" -> 101 [] ch = "i" -> 105

\* str < str
RECURSIVE StrLess(_, _)
StrLess(a, b) ==
  IF b = <<>> THEN FALSE
  ELSE IF a = <<>> THEN TRUE
  ELSE IF a[1] # b[1] THEN Ord(a[1]) < Ord(b[1])
  ELSE StrLess(Tail(a), Tail(b))

\* a digit part of a float literal: digits with single underscores between them
DigitPart(t) ==
  /\ t # <<>>
  /\ IsDigit(t[1]) /\ IsDigit(t[Len(t)])
  /\ \A i \in 1..Len(t) : IsDigit(t[i]) \/ t[i] = "_"
  /\ \A i \in 1..(Len(t) - 1) : ~(t[i] = "_" /\ t[i + 1] = "_")

\* the positions at which t splits into mantissa, "e" and exponent
ExpSplits(t) ==
  {i \in 1..Len(t) : t[i] = "e" /\ DigitPart(SubSeq(t, 1, i - 1))
                                /\ DigitPart(SubSeq(t, i + 1, Len(t)))}

\* float(x) succeeds: over this alphabet, a digit part with an optional
\* exponent (a normalized key holds no sign, no point and no upper case)
IsFloat(t) == DigitPart(t) \/ ExpSplits(t) # {}

DigitVal(ch) == Ord(ch) - 48

\* the value of a digit part
RECURSIVE FloatFrom(_, _)
FloatFrom(t, acc) ==
  IF t = <<>> THEN acc
  ELSE IF t[1] = "_" THEN FloatFrom(Tail(t), acc)
  ELSE FloatFrom(Tail(t), 10 * acc + DigitVal(t[1]))

\* float(x)
FloatVal(t) ==
  IF DigitPart(t) THEN FloatFrom(t, 0)
  ELSE LET i == CHOOSE i \in ExpSplits(t) : TRUE
       IN FloatFrom(SubSeq(t, 1, i - 1), 0) * (10 ^ FloatFrom(SubSeq(t, i + 1, Len(t)), 0))

\* mutant: the keys compared as strings only
KeyfnLess_Lexical(x, y) == StrLess(x, y)

\* keyfn(x) < keyfn(y): (0, float(x)) for a number, (1, x) otherwise
KeyfnLess(x, y) ==
  IF IsFloat(x) /\ IsFloat(y) THEN FloatVal(x) < FloatVal(y)
  ELSE IF IsFloat(x) THEN TRUE
  ELSE IF IsFloat(y) THEN FALSE
  ELSE StrLess(x, y)

\* every arrangement of a set as a sequence
RECURSIVE Perms(_)
Perms(set) ==
  IF set = {} THEN {<<>>}
  ELSE UNION {{<<e>> \o p : p \in Perms(set \ {e})} : e \in set}

\* _sort_keys(list(set1 | set2)): sorted() is stable and the set's iteration
\* order is arbitrary, so keys that compare equal may come out in any order
_sort_keys(keys) ==
  {p \in Perms(keys) : \A i, j \in 1..Len(p) : i < j => ~KeyfnLess(p[j], p[i])}

\* ------------------------------------------------------------ column matcher

\* _sample_column_values (excel_diff.py:388-396)
RECURSIVE SampleFrom(_, _, _, _, _, _)
SampleFrom(sheet, r, stop, col, max_samples, vals) ==
  IF r >= stop THEN vals
  ELSE LET v == Cell(sheet, r, col)
       IN IF ~IsEmptyValue(v)
          THEN IF Len(vals) + 1 >= max_samples
               THEN Append(vals, _normalize_key(v))
               ELSE SampleFrom(sheet, r + 1, stop, col, max_samples,
                               Append(vals, _normalize_key(v)))
          ELSE SampleFrom(sheet, r + 1, stop, col, max_samples, vals)

Min(a, b) == IF a < b THEN a ELSE b
Max(a, b) == IF a > b THEN a ELSE b

\* mutant: the sampled values passed through the Normalizer
_sample_column_values_Normalizer(sheet, header_row, col, max_samples) ==
  LET smp == SampleFrom(sheet, header_row + 1,
                        Min(sheet.max_row + 1, header_row + 1 + max_samples * 5),
                        col, max_samples, <<>>)
  IN <<>> \o [k \in 1..Len(smp) |-> _normalize_header(S(smp[k]))]

_sample_column_values(sheet, header_row, col, max_samples) ==
  SampleFrom(sheet, header_row + 1,
             Min(sheet.max_row + 1, header_row + 1 + max_samples * 5),
             col, max_samples, <<>>)

Range(f) == {f[i] : i \in DOMAIN f}

\* A score is a fraction <<numerator, denominator>>, denominator > 0.
FracLess(p, q) == p[1] * q[2] < q[1] * p[2]
FracEq(p, q) == p[1] * q[2] = q[1] * p[2]

\* _jaccard
_jaccard(a, b) ==
  LET sa == Range(a)
      sb == Range(b)
  IN IF sa = {} /\ sb = {} THEN <<1, 1>>
     ELSE IF sa = {} \/ sb = {} THEN <<0, 1>>
     ELSE <<Cardinality(sa \cap sb), Cardinality(sa \cup sb)>>

\* SequenceMatcher.find_longest_match over all of a and b: the blocks
\* <<i, j, k>> with a[i..i+k-1] = b[j..j+k-1]
Blocks(a, b) ==
  {blk \in (1..Len(a)) \X (1..Len(b)) \X (1..Min(Len(a), Len(b))) :
     /\ blk[1] + blk[3] - 1 <= Len(a)
     /\ blk[2] + blk[3] - 1 <= Len(b)
     /\ SubSeq(a, blk[1], blk[1] + blk[3] - 1) = SubSeq(b, blk[2], blk[2] + blk[3] - 1)}

\* the longest block, the one starting earliest in a, then earliest in b
LongestBlock(a, b) ==
  LET blocks == Blocks(a, b)
  IN CHOOSE x \in blocks : \A y \in blocks \ {x} :
       \/ x[3] > y[3]
       \/ x[3] = y[3] /\ x[1] < y[1]
       \/ x[3] = y[3] /\ x[1] = y[1] /\ x[2] < y[2]

\* SequenceMatcher.get_matching_blocks: the number of matched characters
RECURSIVE Matches(_, _)
Matches(a, b) ==
  IF Blocks(a, b) = {} THEN 0
  ELSE LET m == LongestBlock(a, b)
       IN m[3] + Matches(SubSeq(a, 1, m[1] - 1), SubSeq(b, 1, m[2] - 1))
               + Matches(SubSeq(a, m[1] + m[3], Len(a)), SubSeq(b, m[2] + m[3], Len(b)))

\* _name_ratio: SequenceMatcher(None, a.lower(), b.lower()).ratio()
_name_ratio(a, b) ==
  IF a = <<>> \/ b = <<>> THEN <<0, 1>>
  ELSE <<2 * Matches(Lower(a), Lower(b)), Len(a) + Len(b)>>

\* weight_name * name_s + weight_data * data_s, the weights in hundredths
Score(weight_name, weight_data, name_s, data_s) ==
  <<weight_name * name_s[1] * data_s[2] + weight_data * data_s[1] * name_s[2],
    100 * name_s[2] * data_s[2]>>

\* the scores list (excel_diff.py:428-436): h1 outer, h2 inner, dict order
ScoreList(headers1_row, headers2_row, sheet1, sheet2, header_row1, header_row2, weight_name, weight_data, sample_size) ==
  LET n2 == Len(headers2_row)
      entry(i, j) ==
        LET e1 == headers1_row[i]
            e2 == headers2_row[j]
        IN [score |-> Score(weight_name, weight_data,
                            _name_ratio(e1.val.disp, e2.val.disp),
                            _jaccard(_sample_column_values(sheet1, header_row1, e1.val.col, sample_size),
                                     _sample_column_values(sheet2, header_row2, e2.val.col, sample_size))),
            h1 |-> e1.key, h2 |-> e2.key]
  IN <<>> \o [n \in 1..(Len(headers1_row) * n2) |->
                entry(((n - 1) \div n2) + 1, ((n - 1) % n2) + 1)]

\* mutant: the scores left in the order they were appended
SortDesc_Unsorted(scores) == scores

\* scores.sort(reverse=True, key=score): stable, equal scores keep their order
RECURSIVE SortDesc(_)
SortDesc(scores) ==
  IF scores = <<>> THEN <<>>
  ELSE LET i == CHOOSE i \in 1..Len(scores) :
                  /\ \A j \in 1..Len(scores) : ~FracLess(scores[i].score, scores[j].score)
                  /\ \A j \in 1..(i - 1) : FracLess(scores[j].score, scores[i].score)
       IN <<scores[i]>> \o SortDesc(SubSeq(scores, 1, i - 1) \o SubSeq(scores, i + 1, Len(scores)))

\* mutant: the greedy loop without the test of mapped2
RECURSIVE Greedy_NoMapped2(_, _, _)
Greedy_NoMapped2(scores, min_score, mapping) ==
  IF scores = <<>> THEN mapping
  ELSE LET e == scores[1]
       IN IF FracLess(e.score, <<min_score, 100>>) THEN mapping
          ELSE IF Has(mapping, e.h1)
               THEN Greedy_NoMapped2(Tail(scores), min_score, mapping)
               ELSE Greedy_NoMapped2(Tail(scores), min_score, Put(mapping, e.h1, e.h2))

\* the greedy loop (excel_diff.py:445-452)
RECURSIVE Greedy(_, _, _)
Greedy(scores, min_score, mapping) ==
  IF scores = <<>> THEN mapping
  ELSE LET e == scores[1]
       IN IF FracLess(e.score, <<min_score, 100>>) THEN mapping
          ELSE IF Has(mapping, e.h1) \/ e.h2 \in {mapping[i].val : i \in 1..Len(mapping)}
               THEN Greedy(Tail(scores), min_score, mapping)
               ELSE Greedy(Tail(scores), min_score, Put(mapping, e.h1, e.h2))

\* match_columns_by_data: the dict norm_header1 -> norm_header2
match_columns_by_data(headers1_row, headers2_row, sheet1, sheet2, header_row1, header_row2, weight_name, weight_data, min_score, sample_size) ==
  Greedy(SortDesc(ScoreList(headers1_row, headers2_row, sheet1, sheet2,
                            header_row1, header_row2, weight_name, weight_data, sample_size)),
         min_score, <<>>)

\* ------------------------------------------------- unified headers, header map

\* _ordered_norms_from_map: the keys sorted by column
RECURSIVE OrderedNorms(_)
OrderedNorms(hmap) ==
  IF hmap = <<>> THEN <<>>
  ELSE LET i == CHOOSE i \in 1..Len(hmap) :
                  /\ \A j \in 1..Len(hmap) : hmap[i].val.col <= hmap[j].val.col
                  /\ \A j \in 1..(i - 1) : hmap[j].val.col > hmap[i].val.col
       IN <<hmap[i].key>> \o
          OrderedNorms(SubSeq(hmap, 1, i - 1) \o SubSeq(hmap, i + 1, Len(hmap)))

\* the loop over file 1's headers (excel_diff.py:202-209): <<header_list, used_in_file2>>
RECURSIVE HeaderLoop1(_, _, _, _, _)
HeaderLoop1(hs, key_header_norm, col_match, header_list, used_in_file2) ==
  IF hs = <<>> THEN <<header_list, used_in_file2>>
  ELSE LET h == hs[1]
       IN IF h = key_header_norm
          THEN HeaderLoop1(Tail(hs), key_header_norm, col_match, header_list, used_in_file2)
          ELSE HeaderLoop1(Tail(hs), key_header_norm, col_match,
                           IF h \in Range(header_list) THEN header_list ELSE Append(header_list, h),
                           IF Has(col_match, h) /\ Val(col_match, h) # <<>>
                           THEN used_in_file2 \cup {Val(col_match, h)} ELSE used_in_file2)

\* the loop over file 2's headers (excel_diff.py:211-216)
RECURSIVE HeaderLoop2(_, _, _, _)
HeaderLoop2(hs, key_header_norm, header_list, used_in_file2) ==
  IF hs = <<>> THEN header_list
  ELSE LET h == hs[1]
       IN IF h = key_header_norm \/ h \in Range(header_list) \/ h \in used_in_file2
          THEN HeaderLoop2(Tail(hs), key_header_norm, header_list, used_in_file2)
          ELSE HeaderLoop2(Tail(hs), key_header_norm, Append(header_list, h), used_in_file2)

\* header_list (excel_diff.py:196-216)
BuildHeaderList(headers1_row, headers2_row, col_match, key_header_norm) ==
  LET first == IF Has(headers1_row, key_header_norm) \/ Has(headers2_row, key_header_norm)
               THEN <<key_header_norm>> ELSE <<>>
      l1 == HeaderLoop1(OrderedNorms(headers1_row), key_header_norm, col_match, first, {})
  IN HeaderLoop2(OrderedNorms(headers2_row), key_header_norm, l1[1], l1[2])

\* dict.get: the entry, or NoEntry for None
NoEntry == [row |-> 0, col |-> 0, disp |-> <<>>]
GetHeader(hmap, k) == IF Has(hmap, k) THEN Val(hmap, k) ELSE NoEntry

\* the first key of col_match whose value is hnorm (excel_diff.py:250-254), or ""
RevKey(col_match, hnorm) ==
  IF \E i \in 1..Len(col_match) : col_match[i].val = hnorm
  THEN col_match[CHOOSE i \in 1..Len(col_match) :
                   /\ col_match[i].val = hnorm
                   /\ \A j \in 1..(i - 1) : col_match[j].val # hnorm].key
  ELSE <<>>

\* one entry of header_map (excel_diff.py:242-266); column 0 stands for None
HeaderMapEntry(hnorm, headers1_row, headers2_row, col_match) ==
  LET r1c0 == GetHeader(headers1_row, hnorm)
      r2c == IF Has(headers1_row, hnorm) /\ Has(col_match, hnorm)
             THEN GetHeader(headers2_row, Val(col_match, hnorm))
             ELSE GetHeader(headers2_row, hnorm)
      rev == RevKey(col_match, hnorm)
      r1c == IF r1c0 = NoEntry /\ r2c # NoEntry
             THEN (IF rev # <<>> THEN GetHeader(headers1_row, rev) ELSE NoEntry)
             ELSE r1c0
  IN [hnorm |-> hnorm, c1 |-> r1c.col, c2 |-> r2c.col,
      disp1 |-> IF r1c # NoEntry THEN r1c.disp ELSE IF r2c # NoEntry THEN r2c.disp ELSE hnorm,
      disp2 |-> IF r2c # NoEntry THEN r2c.disp ELSE IF r1c # NoEntry THEN r1c.disp ELSE hnorm]

BuildHeaderMap(header_list, headers1_row, headers2_row, col_match) ==
  [n \in 1..Len(header_list) |->
     HeaderMapEntry(header_list[n], headers1_row, headers2_row, col_match)]

\* ----------------------------------------------------------------- row aligner

\* row_dict.get(key): the row, 0 for None
GetRow(row_dict, k) == IF Has(row_dict, k) THEN Val(row_dict, k) ELSE 0

\* one side of a label: the key cell's text when it is not empty, else the row
LabelSide(sheet, r, key_col) ==
  LET raw == Cell(sheet, r, key_col)
  IN [disp |-> IF r # 0 /\ key_col # 0 /\ ~IsEmptyValue(raw) THEN Str(raw) ELSE <<>>,
      row |-> r]

\* mutant: row2 looked up in file 1's index
RowsByKey_Index1(all_keys, row_dict1, row_dict2, sheet1, sheet2, key_col1, key_col2) ==
  [n \in 1..Len(all_keys) |->
     LET r1 == GetRow(row_dict1, all_keys[n])
         r2 == GetRow(row_dict1, all_keys[n])
     IN [r1 |-> r1, r2 |-> r2,
         label |-> <<LabelSide(sheet1, r1, key_col1), LabelSide(sheet2, r2, key_col2)>>]]

\* rows_to_compare in by_key mode, for one order of the keys (excel_diff.py:274-293)
RowsByKey(all_keys, row_dict1, row_dict2, sheet1, sheet2, key_col1, key_col2) ==
  [n \in 1..Len(all_keys) |->
     LET r1 == GetRow(row_dict1, all_keys[n])
         r2 == GetRow(row_dict2, all_keys[n])
     IN [r1 |-> r1, r2 |-> r2,
         label |-> <<LabelSide(sheet1, r1, key_col1), LabelSide(sheet2, r2, key_col2)>>]]

\* mutant: both sides taken at file 1's absolute row
RowsByRow_SameRow(sheet1, sheet2, key_row1, key_row2, key_col1, key_col2) ==
  LET max_after == Max(sheet1.max_row - key_row1, sheet2.max_row - key_row2)
  IN [offset \in 1..max_after |->
        LET r1 == IF key_row1 + offset <= sheet1.max_row THEN key_row1 + offset ELSE 0
            r2 == IF key_row1 + offset <= sheet2.max_row THEN key_row1 + offset ELSE 0
        IN [r1 |-> r1, r2 |-> r2,
            label |-> <<LabelSide(sheet1, r1, key_col1), LabelSide(sheet2, r2, key_col2)>>]]

\* mutant: one offset past the longer file
RowsByRow_ExtraOffset(sheet1, sheet2, key_row1, key_row2, key_col1, key_col2) ==
  LET max_after == Max(sheet1.max_row - key_row1, sheet2.max_row - key_row2)
  IN [offset \in 1..(max_after + 1) |->
        LET r1 == IF key_row1 + offset <= sheet1.max_row THEN key_row1 + offset ELSE 0
            r2 == IF key_row2 + offset <= sheet2.max_row THEN key_row2 + offset ELSE 0
        IN [r1 |-> r1, r2 |-> r2,
            label |-> <<LabelSide(sheet1, r1, key_col1), LabelSide(sheet2, r2, key_col2)>>]]

\* rows_to_compare in by_row mode (excel_diff.py:295-315)
RowsByRow(sheet1, sheet2, key_row1, key_row2, key_col1, key_col2) ==
  LET max_after == Max(sheet1.max_row - key_row1, sheet2.max_row - key_row2)
  IN [offset \in 1..max_after |->
        LET r1 == IF key_row1 + offset <= sheet1.max_row THEN key_row1 + offset ELSE 0
            r2 == IF key_row2 + offset <= sheet2.max_row THEN key_row2 + offset ELSE 0
        IN [r1 |-> r1, r2 |-> r2,
            label |-> <<LabelSide(sheet1, r1, key_col1), LabelSide(sheet2, r2, key_col2)>>]]

\* mutant: the file-2 side of a differing pair filled without testing its value
DiffCell_AlwaysAdd(sheet1, sheet2, row, hm, i) ==
  LET val1 == IF row.r1 # 0 /\ hm.c1 # 0 THEN Cell(sheet1, row.r1, hm.c1) ELSE None
      val2 == IF row.r2 # 0 /\ hm.c2 # 0 THEN Cell(sheet2, row.r2, hm.c2) ELSE None
      base == IF i % 2 = 1 THEN "alt" ELSE "none"
  IN IF IsEmptyValue(val1) /\ IsEmptyValue(val2)
     THEN [val1 |-> val1, val2 |-> val2, fill1 |-> base, fill2 |-> base]
     ELSE IF _safe_eq(val1, val2)
     THEN [val1 |-> val1, val2 |-> val2, fill1 |-> "match", fill2 |-> "match"]
     ELSE [val1 |-> val1, val2 |-> val2,
           fill1 |-> IF ~IsEmptyValue(val1) THEN "del" ELSE base,
           fill2 |-> "add"]

\* the output cells of one aligned row for one header_map entry
\* (excel_diff.py:324-345): the two values and the two fills
DiffCell(sheet1, sheet2, row, hm, i) ==
  LET val1 == IF row.r1 # 0 /\ hm.c1 # 0 THEN Cell(sheet1, row.r1, hm.c1) ELSE None
      val2 == IF row.r2 # 0 /\ hm.c2 # 0 THEN Cell(sheet2, row.r2, hm.c2) ELSE None
      base == IF i % 2 = 1 THEN "alt" ELSE "none"
  IN IF IsEmptyValue(val1) /\ IsEmptyValue(val2)
     THEN [val1 |-> val1, val2 |-> val2, fill1 |-> base, fill2 |-> base]
     ELSE IF _safe_eq(val1, val2)
     THEN [val1 |-> val1, val2 |-> val2, fill1 |-> "match", fill2 |-> "match"]
     ELSE [val1 |-> val1, val2 |-> val2,
           fill1 |-> IF ~IsEmptyValue(val1) THEN "del" ELSE base,
           fill2 |-> IF ~IsEmptyValue(val2) THEN "add" ELSE base]

\* ------------------------------------------------------------------- state

VARIABLES
  pc,              \* where the call is: an engine step, "done" or "failed"
  nfiles,          \* len(file_list) as given by the caller
  passed,          \* len(file_list) as the engine receives it
  loaded,          \* the number of input files opened so far
  ext,             \* extension of file_list[0] (run_compare)
  file_type,       \* the file_type override of run_compare, "" for None or ""
  opts,            \* the options of the call
  sheet1, sheet2,  \* first sheet of each workbook
  doc1, doc2,      \* the pages of each PDF
  error,           \* the exception that ended the call, "" for none
  progress_log,    \* the values passed to progress_cb, in order
  raised_at,       \* index in progress_log of the callback's first raise, 0 for none
  key1, key2,      \* (key_row, key_col) of each sheet
  row_dict1, row_dict2,
  headers1_row, headers2_row,
  col_match,
  header_list,
  header_map,
  rows_to_compare,
  i,               \* the index of the row loop / page loop
  out,             \* the output rows written so far (cells of ws from row 7)
  canvas,          \* the pages shown on the reportlab canvas
  tmp_dir,         \* "none", "exists", "removed"
  artifact,        \* the file at the output path: "none", "written", "deleted"
  result,          \* "none", "workbook", "path"
  meta             \* rows_compared / pages_compared, -1 before it is built

inputs == <<nfiles, ext, file_type, opts, sheet1, sheet2, doc1, doc2>>
xlvars == <<key1, key2, row_dict1, row_dict2, headers1_row, headers2_row, col_match,
            header_list, header_map, rows_to_compare, out>>
pdfvars == <<canvas, tmp_dir>>
vars == <<pc, passed, loaded, inputs, error, progress_log, raised_at, xlvars, i, pdfvars,
          artifact, result, meta>>

\* ------------------------------------------------------------- progress_cb

\* the statement at excel_diff.py:348
ProgressEvery == 20

\* mutant: the callback's exception is not caught
Caught_Not == FALSE

\* `except Exception: pass` around the callback: the exception is caught
Caught == TRUE

\* _progress(p) on the progress state [log, raised_at, escaped]: the callback,
\* when callable, is called with int(p); it raises when p >= abort_from
_progress(cb, st, p) ==
  IF st.escaped \/ ~cb.callable THEN st
  ELSE [log |-> Append(st.log, p),
        raised_at |-> IF st.raised_at = 0 /\ p >= cb.abort_from
                      THEN Len(st.log) + 1 ELSE st.raised_at,
        escaped |-> p >= cb.abort_from /\ ~Caught]

PState == [log |-> progress_log, raised_at |-> raised_at, escaped |-> FALSE]

SetProgress(st) == progress_log' = st.log /\ raised_at' = st.raised_at

\* an exception leaves the engine
Fail(e) == pc' = "failed" /\ error' = e

\* --------------------------------------------------------------- run_compare

Excel == <<"e", "x", "c", "e", "l">>
Pdf == <<"p", "d", "f">>
Unknown == <<"unknown">>
IndexError == <<"IndexError">>

\* EXT_TO_TYPE.get(ext.lower(), "unknown")
EXT_TO_TYPE(e) ==
  CASE Lower(e) = <<".", "x", "l", "s", "x">> -> Excel
    [] Lower(e) = <<".", "x", "l", "s">> -> Excel
    [] Lower(e) = <<".", "p", "d", "f">> -> Pdf
    [] OTHER -> Unknown

\* _detect_type: the override lowercased when it is given and not empty, else
\* by the first file's extension; file_list[0] of an empty list is an IndexError
_detect_type(n, e, override) ==
  IF override # <<>> THEN Lower(override)
  ELSE IF n = 0 THEN IndexError
  ELSE EXT_TO_TYPE(e)

\* run_compare (runner.py:27-52)
RunCompare ==
  /\ pc = "run_compare"
  /\ LET detected == _detect_type(nfiles, ext, file_type)
     IN /\ passed' = Min(nfiles, 2)
        /\ CASE detected = Excel -> pc' = "xl_start" /\ error' = error
             [] detected = Pdf -> pc' = "pdf_start" /\ error' = error
             [] detected = IndexError -> Fail("IndexError")
             [] OTHER -> Fail("UnsupportedFileType")
  /\ UNCHANGED <<loaded, inputs, progress_log, raised_at, xlvars, i, pdfvars, artifact, result, meta>>

\* ------------------------------------------------------ compare_excel_files

\* excel_diff.py:152-162
ExcelStart ==
  /\ pc = "xl_start"
  /\ IF passed < 2
     THEN Fail("TooFewFiles") /\ UNCHANGED <<progress_log, raised_at>>
     ELSE LET st == _progress(opts.progress_cb, PState, 1)
          IN /\ SetProgress(st)
             /\ IF st.escaped THEN Fail("CallbackError")
                ELSE pc' = "xl_locate" /\ error' = error
  /\ UNCHANGED <<loaded, passed, inputs, xlvars, i, pdfvars, artifact, result, meta>>

\* excel_diff.py:163-174
ExcelLocate ==
  /\ pc = "xl_locate"
  /\ LET key_header_norm == _normalize_header(opts.key_header)
         k1 == locate_header_row(sheet1, key_header_norm, opts.top_rows_prefer)
         k2 == locate_header_row(sheet2, key_header_norm, opts.top_rows_prefer)
         st == _progress(opts.progress_cb, PState, 5)
     IN IF k1 = NotFound
        THEN Fail("HeaderNotFound") /\ UNCHANGED <<key1, key2, progress_log, raised_at>>
        ELSE IF k2 = NotFound
        THEN Fail("HeaderNotFound") /\ key1' = k1 /\ UNCHANGED <<key2, progress_log, raised_at>>
        ELSE /\ key1' = k1 /\ key2' = k2
             /\ SetProgress(st)
             /\ IF st.escaped THEN Fail("CallbackError")
                ELSE pc' = "xl_prepare" /\ error' = error
  /\ loaded' = 2
  /\ UNCHANGED <<passed, inputs, row_dict1, row_dict2, headers1_row, headers2_row, col_match,
                 header_list, header_map, rows_to_compare, out, i, pdfvars, artifact, result, meta>>

\* excel_diff.py:175-221
ExcelPrepare ==
  /\ pc = "xl_prepare"
  /\ LET key_header_norm == _normalize_header(opts.key_header)
         h1 == headers_from_row(sheet1, key1[1])
         h2 == headers_from_row(sheet2, key2[1])
         cm == match_columns_by_data(h1, h2, sheet1, sheet2, key1[1], key2[1],
                                     opts.weight_name, opts.weight_data,
                                     opts.min_score, opts.sample_size)
         hl == BuildHeaderList(h1, h2, cm, key_header_norm)
         st == _progress(opts.progress_cb, PState, 15)
     IN /\ row_dict1' = build_row_dict(sheet1, key1[1], key1[2])
        /\ row_dict2' = build_row_dict(sheet2, key2[1], key2[2])
        /\ headers1_row' = h1
        /\ headers2_row' = h2
        /\ col_match' = cm
        /\ header_list' = hl
        /\ IF hl = <<>>
           THEN Fail("NoHeadersFound") /\ UNCHANGED <<progress_log, raised_at>>
           ELSE /\ SetProgress(st)
                /\ IF st.escaped THEN Fail("CallbackError")
                   ELSE pc' = "xl_header_map" /\ error' = error
  /\ UNCHANGED <<loaded, passed, inputs, key1, key2, header_map, rows_to_compare, out, i, pdfvars,
                 artifact, result, meta>>

\* excel_diff.py:222-269
ExcelHeaderMap ==
  /\ pc = "xl_header_map"
  /\ header_map' = BuildHeaderMap(header_list, headers1_row, headers2_row, col_match)
  /\ LET st == _progress(opts.progress_cb, PState, 30)
     IN /\ SetProgress(st)
        /\ IF st.escaped THEN Fail("CallbackError")
           ELSE pc' = "xl_align" /\ error' = error
  /\ UNCHANGED <<loaded, passed, inputs, key1, key2, row_dict1, row_dict2, headers1_row, headers2_row,
                 col_match, header_list, rows_to_compare, out, i, pdfvars, artifact, result, meta>>

\* excel_diff.py:270-319
ExcelAlign ==
  /\ pc = "xl_align"
  /\ CASE opts.compare_mode = "by_key" ->
            \E all_keys \in _sort_keys(Keys(row_dict1) \cup Keys(row_dict2)) :
              /\ rows_to_compare' = RowsByKey(all_keys, row_dict1, row_dict2, sheet1, sheet2,
                                              key1[2], key2[2])
              /\ pc' = "xl_rows" /\ error' = error
       [] opts.compare_mode = "by_row" ->
            /\ rows_to_compare' = RowsByRow(sheet1, sheet2, key1[1], key2[1], key1[2], key2[2])
            /\ pc' = "xl_rows" /\ error' = error
       [] OTHER ->
            Fail("InvalidAlignmentMode") /\ UNCHANGED rows_to_compare
  /\ i' = 0
  /\ UNCHANGED <<loaded, passed, inputs, progress_log, raised_at, key1, key2, row_dict1, row_dict2,
                 headers1_row, headers2_row, col_match, header_list, header_map, out, pdfvars,
                 artifact, result, meta>>

\* one pass of the loop over rows_to_compare (excel_diff.py:321-349)
ExcelRow ==
  /\ pc = "xl_rows"
  /\ i < Len(rows_to_compare)
  /\ LET total == Max(1, Len(rows_to_compare))
         row == rows_to_compare[i + 1]
         st == IF i % ProgressEvery = 0
               THEN _progress(opts.progress_cb, PState, 30 + ((60 * i) \div total))
               ELSE PState
     IN /\ out' = Append(out, [label |-> row.label,
                               cells |-> [n \in 1..Len(header_map) |->
                                            DiffCell(sheet1, sheet2, row, header_map[n], i)]])
        /\ SetProgress(st)
        /\ IF st.escaped THEN Fail("CallbackError")
           ELSE pc' = pc /\ error' = error
  /\ i' = i + 1
  /\ UNCHANGED <<loaded, passed, inputs, key1, key2, row_dict1, row_dict2, headers1_row, headers2_row,
                 col_match, header_list, header_map, rows_to_compare, pdfvars, artifact,
                 result, meta>>

\* after the loop (excel_diff.py:351-383): the cosmetics, the save, the result
ExcelFinish ==
  /\ pc = "xl_rows"
  /\ i = Len(rows_to_compare)
  /\ LET st == _progress(opts.progress_cb, _progress(opts.progress_cb, PState, 95), 100)
     IN /\ SetProgress(st)
        /\ IF st.escaped
           THEN Fail("CallbackError") /\ UNCHANGED <<artifact, result, meta>>
           ELSE /\ pc' = "done" /\ error' = error
                /\ artifact' = IF opts.output_path THEN "written" ELSE artifact
                /\ result' = IF opts.output_path THEN "path" ELSE "workbook"
                /\ meta' = Len(rows_to_compare)
  /\ UNCHANGED <<loaded, passed, inputs, xlvars, i, pdfvars>>

NextExcel ==
  \/ ExcelStart
  \/ ExcelLocate
  \/ ExcelPrepare
  \/ ExcelHeaderMap
  \/ ExcelAlign
  \/ ExcelRow
  \/ ExcelFinish

\* ------------------------------------------------------------- compare_pdfs

\* page.get_text(): the words of the page in reading order, a blank between
\* two words and a newline at the end of the text
RECURSIVE PageText(_)
PageText(words) ==
  IF words = <<>> THEN <<>>
  ELSE IF Len(words) = 1 THEN words[1] \o <<"\n">>
  ELSE words[1] \o <<" ">> \o PageText(Tail(words))

\* str.split(): the maximal runs of non-whitespace characters, in order
RECURSIVE Split(_, _)
Split(text, word) ==
  IF text = <<>> THEN (IF word = <<>> THEN <<>> ELSE <<word>>)
  ELSE IF text[1] \in {" ", "\t", "\n"}
  THEN (IF word = <<>> THEN <<>> ELSE <<word>>) \o Split(Tail(text), <<>>)
  ELSE Split(Tail(text), Append(word, text[1]))

\* mutant: a word is compared with the word at the same position of the other page
highlight_text_differences_Positional(page_words, other_text) ==
  LET other == Split(other_text, <<>>)
  IN {n \in 1..Len(page_words) : n > Len(other) \/ page_words[n] # other[n]}

\* highlight_text_differences (pdf_diff.py:30-62): the occurrences of the
\* page's words that get a rectangle
highlight_text_differences(page_words, other_text) ==
  LET set_page_words == Range(page_words)
      set_other == Range(Split(other_text, <<>>))
      diff_words == (set_page_words \ set_other) \cup (set_other \ set_page_words)
  IN {n \in 1..Len(page_words) : page_words[n] \in diff_words}

\* the sum of the values of a dissimilarity map over a set of <<row, col>>
RECURSIVE SumOver(_, _)
SumOver(diff_map, pixels) ==
  IF pixels = {} THEN 0
  ELSE LET px == CHOOSE px \in pixels : TRUE
       IN diff_map[px[1]][px[2]] + SumOver(diff_map, pixels \ {px})

\* diff_map[y:y+box_size, x:x+box_size]: the pixels of a slice, clipped to the map
Region(diff_map, x, y, box_size) ==
  {px \in (1..Len(diff_map)) \X (1..Len(diff_map[1])) :
     /\ y < px[1] /\ px[1] <= y + box_size
     /\ x < px[2] /\ px[2] <= x + box_size}

\* range(0, stop, step)
RangeStep(stop, step) == {n \in 0..(stop - 1) : n % step = 0}

\* mutant: a block is flagged when its mean reaches the threshold
highlight_image_differences_AtLeast(diff_map, threshold, box_size) ==
  {xy \in RangeStep(Len(diff_map[1]), box_size) \X RangeStep(Len(diff_map), box_size) :
     LET region == Region(diff_map, xy[1], xy[2], box_size)
     IN SumOver(diff_map, region) >= threshold * Cardinality(region)}

\* highlight_image_differences (pdf_diff.py:65-95), from the map 1 - SSIM on:
\* the <<x, y>> of the blocks that get a rectangle; the values and the
\* threshold are in hundredths, np.mean(region) > threshold
highlight_image_differences(diff_map, threshold, box_size) ==
  {xy \in RangeStep(Len(diff_map[1]), box_size) \X RangeStep(Len(diff_map), box_size) :
     LET region == Region(diff_map, xy[1], xy[2], box_size)
     IN SumOver(diff_map, region) > threshold * Cardinality(region)}

\* what one pass of the page loop draws on the canvas (pdf_diff.py:114-149)
DrawPage(page_num) ==
  [page |-> page_num,
   boxes |-> highlight_image_differences(doc1[page_num + 1].dis, opts.threshold, opts.box_size),
   hl1 |-> highlight_text_differences(doc1[page_num + 1].words, PageText(doc2[page_num + 1].words)),
   hl2 |-> highlight_text_differences(doc2[page_num + 1].words, PageText(doc1[page_num + 1].words))]

\* highlight_image_differences raises when the two rasters differ in size
\* (structural_similarity checks the shapes); nothing catches it
VisualFails(p1, p2) == p1.size # p2.size

\* the `finally` of compare_pdfs (pdf_diff.py:225-243): the page images go,
\* and without an output_path option the whole temporary directory goes
Finally(art) ==
  /\ tmp_dir' = IF opts.output_path THEN tmp_dir ELSE "removed"
  /\ artifact' = IF ~opts.output_path /\ art = "written" THEN "deleted" ELSE art

\* pdf_diff.py:191-197
PdfStart ==
  /\ pc = "pdf_start"
  /\ IF passed < 2
     THEN Fail("TooFewFiles") /\ UNCHANGED <<progress_log, raised_at, tmp_dir>>
     ELSE LET st == _progress(opts.progress_cb, PState, 1)
          IN /\ SetProgress(st)
             /\ IF st.escaped THEN Fail("CallbackError") /\ UNCHANGED tmp_dir
                ELSE pc' = "pdf_render" /\ error' = error /\ tmp_dir' = "exists"
  /\ UNCHANGED <<loaded, passed, inputs, xlvars, i, canvas, artifact, result, meta>>

\* pdf_diff.py:198-215 and 101-103: render, extract, name the output, open the canvas
PdfRender ==
  /\ pc = "pdf_render"
  /\ LET st == _progress(opts.progress_cb, _progress(opts.progress_cb, PState, 20), 30)
     IN /\ SetProgress(st)
        /\ IF st.escaped
           THEN Fail("CallbackError") /\ Finally(artifact)
           ELSE pc' = "pdf_pages" /\ error' = error /\ UNCHANGED <<tmp_dir, artifact>>
  /\ i' = 0
  /\ loaded' = 2
  /\ UNCHANGED <<passed, inputs, xlvars, canvas, result, meta>>

\* min(len(images1), len(images2), len(texts1), len(texts2))
NumPages == Min(Len(doc1), Len(doc2))

\* mutant: the canvas saved at the end of every pass of the page loop
PdfPage_SaveEachPage ==
  /\ pc = "pdf_pages"
  /\ i < NumPages
  /\ LET st1 == _progress(opts.progress_cb, PState, 30 + ((20 * i) \div Max(1, NumPages)))
         st2 == _progress(opts.progress_cb, st1, 50 + ((20 * i) \div Max(1, NumPages)))
     IN IF st1.escaped
        THEN SetProgress(st1) /\ Fail("CallbackError") /\ Finally(artifact) /\ UNCHANGED <<canvas, i>>
        ELSE IF VisualFails(doc1[i + 1], doc2[i + 1])
        THEN SetProgress(st1) /\ Fail("PageFailure") /\ Finally(artifact) /\ UNCHANGED <<canvas, i>>
        ELSE IF st2.escaped
        THEN SetProgress(st2) /\ Fail("CallbackError") /\ Finally(artifact) /\ UNCHANGED <<canvas, i>>
        ELSE /\ SetProgress(st2)
             /\ canvas' = Append(canvas, DrawPage(i))
             /\ i' = i + 1
             /\ artifact' = "written"
             /\ UNCHANGED <<pc, error, tmp_dir>>
  /\ UNCHANGED <<loaded, passed, inputs, xlvars, result, meta>>

\* one pass of the page loop of save_side_by_side_pdf (pdf_diff.py:112-149)
PdfPage ==
  /\ pc = "pdf_pages"
  /\ i < NumPages
  /\ LET st1 == _progress(opts.progress_cb, PState, 30 + ((20 * i) \div Max(1, NumPages)))
         st2 == _progress(opts.progress_cb, st1, 50 + ((20 * i) \div Max(1, NumPages)))
     IN IF st1.escaped
        THEN SetProgress(st1) /\ Fail("CallbackError") /\ Finally(artifact) /\ UNCHANGED <<canvas, i>>
        ELSE IF VisualFails(doc1[i + 1], doc2[i + 1])
        THEN SetProgress(st1) /\ Fail("PageFailure") /\ Finally(artifact) /\ UNCHANGED <<canvas, i>>
        ELSE IF st2.escaped
        THEN SetProgress(st2) /\ Fail("CallbackError") /\ Finally(artifact) /\ UNCHANGED <<canvas, i>>
        ELSE /\ SetProgress(st2)
             /\ canvas' = Append(canvas, DrawPage(i))
             /\ i' = i + 1
             /\ UNCHANGED <<pc, error, tmp_dir, artifact>>
  /\ UNCHANGED <<loaded, passed, inputs, xlvars, result, meta>>

\* mutant: pages_compared counts the pages of the first document
PdfSave_MetaFirstDoc ==
  /\ pc = "pdf_pages"
  /\ i = NumPages
  /\ LET st1 == _progress(opts.progress_cb, PState, 95)
         st2 == _progress(opts.progress_cb, st1, 100)
     IN /\ SetProgress(st2)
        /\ Finally("written")
        /\ IF st2.escaped
           THEN Fail("CallbackError") /\ UNCHANGED <<result, meta>>
           ELSE /\ pc' = "done" /\ error' = error
                /\ result' = "path"
                /\ meta' = Len(doc1)
  /\ UNCHANGED <<loaded, passed, inputs, xlvars, i, canvas>>

\* after the page loop (pdf_diff.py:151-161 and 220-248): c.save(), the
\* cleanup, the result and the meta, the `finally`, the last progress call
PdfSave ==
  /\ pc = "pdf_pages"
  /\ i = NumPages
  /\ LET st1 == _progress(opts.progress_cb, PState, 95)
         st2 == _progress(opts.progress_cb, st1, 100)
     IN /\ SetProgress(st2)
        /\ Finally("written")
        /\ IF st2.escaped
           THEN Fail("CallbackError") /\ UNCHANGED <<result, meta>>
           ELSE /\ pc' = "done" /\ error' = error
                /\ result' = "path"
                /\ meta' = Min(Len(doc1), Len(doc2))
  /\ UNCHANGED <<loaded, passed, inputs, xlvars, i, canvas>>

NextPdf ==
  \/ PdfStart
  \/ PdfRender
  \/ PdfPage
  \/ PdfSave

\* ------------------------------------------------------------------ inputs

\* the defaults of compare_excel_files (excel_diff.py:143-147), in hundredths
DefaultWeightName == 25
DefaultWeightData == 75
DefaultMinScore == 20
DefaultSampleSize == 40
DefaultTopRows == 20
\* the defaults of compare_pdfs' options (pdf_diff.py:178-179), the threshold in hundredths
DefaultThreshold == 60
DefaultBoxSize == 16

\* bounds of the inputs
MaxData == 2      \* data rows of a sheet in the alignment inputs
MaxLocRows == 3   \* rows of a grid in the header-location inputs
MaxPages == 3     \* pages of a document
LongRows == 21    \* data rows of the long sheet (more than ProgressEvery)
MaxSortRows == 2  \* data rows of a sheet in the key-order inputs
MaxWords == 3     \* words of a page in the text inputs
MaxLen == 3       \* characters of a key header in the normalizer inputs
MaxSide == 3      \* columns of a dissimilarity map in the visual inputs
MaxVals == 2      \* values of the data column in the sampling inputs

NoCallback == [callable |-> FALSE, abort_from |-> 0]
\* a callback that raises once it is called with p >= abort_from
Callback(abort_from) == [callable |-> TRUE, abort_from |-> abort_from]

tId == <<"I", "d">>

\* the map 1 - SSIM of two identical one-pixel rasters
NoDiff == << <<0>> >>

DefaultOpts ==
  [key_header |-> S(tId), compare_mode |-> "by_key",
   weight_name |-> DefaultWeightName, weight_data |-> DefaultWeightData,
   min_score |-> DefaultMinScore, sample_size |-> DefaultSampleSize,
   top_rows_prefer |-> DefaultTopRows, output_path |-> FALSE,
   threshold |-> DefaultThreshold, box_size |-> DefaultBoxSize,
   progress_cb |-> NoCallback]

SeqsUpTo(pool, n) == UNION {[1..k -> pool] : k \in 0..n}

EmptySheet == MkSheet(<<>>, 1)

\* what a call starts from, at the entry point `entry`
Start(entry) ==
  /\ pc = entry /\ passed = nfiles /\ loaded = 0 /\ error = ""
  /\ progress_log = <<>> /\ raised_at = 0
  /\ key1 = NotFound /\ key2 = NotFound
  /\ row_dict1 = <<>> /\ row_dict2 = <<>>
  /\ headers1_row = <<>> /\ headers2_row = <<>>
  /\ col_match = <<>> /\ header_list = <<>> /\ header_map = <<>>
  /\ rows_to_compare = <<>> /\ i = 0 /\ out = <<>>
  /\ canvas = <<>> /\ tmp_dir = "none"
  /\ artifact = "none" /\ result = "none" /\ meta = -1

\* a direct call of compare_excel_files on two workbooks
StartExcel ==
  /\ nfiles = 2 /\ ext = <<".", "x", "l", "s", "x">> /\ file_type = <<>>
  /\ doc1 = <<>> /\ doc2 = <<>>
  /\ Start("xl_start")

\* a sheet with the header row (Id, a) and one data row per key
KeySheet(keys) ==
  MkSheet(<< <<S(tId), S(<<"a">>)>> >> \o [n \in 1..Len(keys) |-> <<keys[n], S(<<"b">>)>>], 2)

KeyPool == {N(<<"1">>), N(<<"2">>), S(<<"A">>), S(<<"a">>), None}

\* alignment inputs: the key columns vary
InitAlign ==
  /\ sheet1 \in {KeySheet(ks) : ks \in SeqsUpTo(KeyPool, MaxData)}
  /\ sheet2 \in {KeySheet(ks) : ks \in SeqsUpTo(KeyPool, MaxData)}
  /\ opts \in {[DefaultOpts EXCEPT !.compare_mode = m] : m \in {"by_key", "by_row"}}
  /\ StartExcel

ValPool ==
  {None, S(<<>>), S(<<" ">>), S(<<"b">>), S(<<"B">>), S(<<"b", ".">>), S(<<" ", "b">>),
   S(<<"c">>), S(<<"1">>), N(<<"1">>)}

\* a sheet with the header row (Id, a) and data rows with keys 1, 2, ...
ValSheet(vals) ==
  MkSheet(<< <<S(tId), S(<<"a">>)>> >> \o
          [n \in 1..Len(vals) |-> <<N(<<IF n = 1 THEN "1" ELSE "2">>), vals[n]>>], 2)

\* cell inputs: the values of one column vary, on an even or an odd output row
InitCells ==
  /\ \E v1, v2 \in ValPool,
        lead \in {<< <<>>, <<>> >>, << <<S(<<"b">>)>>, <<S(<<"b">>)>> >>,
                  << <<S(<<" ", "b">>)>>, <<S(<<"b">>)>> >>} :
       /\ sheet1 = ValSheet(lead[1] \o <<v1>>)
       /\ sheet2 \in {ValSheet(lead[2] \o <<v2>>), KeySheet(<<N(<<"1">>)>>),
                      MkSheet(<< <<S(tId)>>, <<N(<<"1">>)>>, <<N(<<"2">>)>> >>, 1)}
  /\ opts \in {[DefaultOpts EXCEPT !.compare_mode = m] : m \in {"by_key", "by_row"}}
  /\ StartExcel

\* sheets with and without the key header
HeaderSheets ==
  {KeySheet(<<N(<<"1">>)>>),
   EmptySheet,
   MkSheet(<< <<S(<<"b">>), S(<<"a">>)>>, <<N(<<"1">>), S(<<"b">>)>> >>, 2),
   MkSheet(<< <<S(<<"I", "d", " ", "a">>), S(<<"a">>)>>, <<S(tId \o <<"s">>), S(<<"b">>)>> >>, 2)}

\* inputs with the key header missing from one grid, the other or both
InitNoHeader ==
  /\ sheet1 \in HeaderSheets
  /\ sheet2 \in HeaderSheets
  /\ opts \in {[DefaultOpts EXCEPT !.compare_mode = m] : m \in {"by_key", "by_row"}}
  /\ StartExcel

\* a sheet with `pad` empty rows above the header row (Id, a)
OffsetSheet(pad, keys) ==
  MkSheet([n \in 1..pad |-> <<None, None>>] \o << <<S(tId), S(<<"a">>)>> >>
            \o [n \in 1..Len(keys) |-> <<keys[n], S(<<"b">>)>>], 2)

\* offset inputs: the header rows of the two sheets are at different positions
InitOffset ==
  /\ sheet1 \in {OffsetSheet(p, ks) : p \in 0..1, ks \in SeqsUpTo({N(<<"1">>), S(<<"a">>)}, MaxData)}
  /\ sheet2 \in {OffsetSheet(p, ks) : p \in 0..1, ks \in SeqsUpTo({N(<<"1">>), S(<<"a">>)}, MaxData)}
  /\ opts \in {[DefaultOpts EXCEPT !.compare_mode = m] : m \in {"by_key", "by_row"}}
  /\ StartExcel

InitTab == InitAlign \/ InitCells \/ InitNoHeader \/ InitOffset

\* compare_excel_files on data inputs
SpecTab == InitTab /\ [][NextExcel]_vars

\* keys whose numeric and lexical orders differ, with two spellings of ten
SortPool == {N(<<"2">>), N(<<"1", "0">>), S(<<"1", "E", "1">>), S(<<"a">>), S(<<"B">>)}

\* key-order inputs: by_key runs over key columns drawn from SortPool
InitSort ==
  /\ sheet1 \in {KeySheet(ks) : ks \in SeqsUpTo(SortPool, MaxSortRows)}
  /\ sheet2 \in {KeySheet(ks) : ks \in SeqsUpTo(SortPool, MaxSortRows)}
  /\ opts = DefaultOpts
  /\ StartExcel

\* compare_excel_files in by_key mode on the key-order inputs
SpecSort == InitSort /\ [][NextExcel]_vars

\* grids of two columns whose cells may hold the key header, other text, a
\* number or nothing
LocGrids ==
  UNION {[1..n -> {None, S(tId), N(<<"1">>)} \X {None, S(<<" ", "i", "d", ".">>), S(<<"b">>)}] :
           n \in 1..MaxLocRows}

\* header-location inputs: the grid of file 1 and top_rows_prefer vary
InitLocate ==
  /\ sheet1 \in {MkSheet(g, 2) : g \in LocGrids}
  /\ sheet2 = KeySheet(<<>>)
  /\ opts \in {[DefaultOpts EXCEPT !.top_rows_prefer = t] : t \in {0, 1, 2, DefaultTopRows}}
  /\ StartExcel

\* compare_excel_files up to the location of the two header rows
SpecLocate == InitLocate /\ [][ExcelStart \/ ExcelLocate]_vars

NamePool == {S(<<"a", "b">>), S(<<"b", "a">>), S(<<"b">>)}
DataPool == {S(<<"b">>), S(<<"c">>), None}

\* column-matching inputs: the header names of both files, the data of file 2,
\* the weights and min_score vary
InitMatch ==
  /\ \E n1, n2 \in NamePool :
       sheet1 = MkSheet(<< <<S(tId), n1, n2>>, <<N(<<"1">>), S(<<"b">>), S(<<"c">>)>> >>, 3)
  /\ \E m1, m2 \in NamePool, d1, d2 \in DataPool :
       sheet2 = MkSheet(<< <<S(tId), m1, m2>>, <<N(<<"1">>), d1, d2>> >>, 3)
  /\ opts \in {[DefaultOpts EXCEPT !.min_score = m, !.weight_name = w[1], !.weight_data = w[2]] :
                 m \in {0, DefaultMinScore, 50, 60, 101},
                 w \in {<<DefaultWeightName, DefaultWeightData>>, <<100, 0>>, <<0, 100>>}}
  /\ StartExcel

\* key-matching inputs: the key column of file 2 and the data of its other
\* columns vary, so that file 1's key column may resemble another column more
InitKeyMatch ==
  /\ \E n1 \in NamePool :
       sheet1 = MkSheet(<< <<S(tId), n1>>, <<N(<<"1">>), S(<<"b">>)>> >>, 2)
  /\ \E m1, m2 \in NamePool, k2 \in {N(<<"1">>), N(<<"2">>)}, d1, d2 \in {S(<<"b">>), N(<<"1">>)} :
       sheet2 = MkSheet(<< <<S(tId), m1, m2>>, <<k2, d1, d2>> >>, 3)
  /\ opts \in {[DefaultOpts EXCEPT !.min_score = m] : m \in {DefaultMinScore, 60}}
  /\ StartExcel

\* compare_excel_files to its end, on the column-matching inputs
SpecGrid == (InitMatch \/ InitKeyMatch) /\ [][NextExcel]_vars

SamplePool == {S(<<"b">>), S(<<"B">>), S(<<" ", "b">>), S(<<"b", ".">>), S(<<"c">>)}

\* a sheet with the header row (Id, name) and a data column of `pad` empty
\* cells followed by vals
SampleSheet(name, pad, vals) ==
  MkSheet(<< <<S(tId), S(name)>> >> \o [n \in 1..pad |-> <<N(<<"1">>), None>>]
            \o [n \in 1..Len(vals) |-> <<N(<<"1">>), vals[n]>>], 2)

\* sampling inputs: the data column of file 2 and sample_size vary; the
\* columns are matched on their data alone, for a data score of 1.0 only
InitSample ==
  /\ sheet1 \in {SampleSheet(<<"a">>, 0, vals) : vals \in {<<S(<<"b">>)>>, <<S(<<"b">>), S(<<"c">>)>>}}
  /\ sheet2 \in {SampleSheet(<<"c">>, pad, vals) :
                   pad \in {0, 4, 5}, vals \in SeqsUpTo(SamplePool, MaxVals)}
  /\ opts \in {[DefaultOpts EXCEPT !.sample_size = n, !.weight_name = 0,
                                   !.weight_data = 100, !.min_score = 100] :
                 n \in {1, 2, DefaultSampleSize}}
  /\ StartExcel

\* compare_excel_files up to the column match, on the sampling inputs
SpecSample == InitSample /\ [][ExcelStart \/ ExcelLocate \/ ExcelPrepare]_vars

\* compare_excel_files up to the column match and the unified header list
SpecMatch == (InitMatch \/ InitKeyMatch) /\ [][ExcelStart \/ ExcelLocate \/ ExcelPrepare]_vars

NormChars == {"a", "A", "1", "_", ".", " ", "\t", IDot}

\* normalizer inputs: the key header is None or any text of up to MaxLen
\* characters; file 1's header row holds its normalized text
InitNorm ==
  /\ opts \in {[DefaultOpts EXCEPT !.key_header = k] :
                 k \in {None} \cup {S(t) : t \in SeqsUpTo(NormChars, MaxLen)}}
  /\ sheet1 = MkSheet(<< <<S(_normalize_header(opts.key_header)), S(<<"a">>)>> >>, 2)
  /\ sheet2 = KeySheet(<<>>)
  /\ StartExcel

\* compare_excel_files up to the location of the header rows, on the normalizer inputs
SpecNorm == InitNorm /\ [][ExcelStart \/ ExcelLocate]_vars

\* a direct call of compare_pdfs on two documents
StartPdf ==
  /\ nfiles = 2 /\ ext = <<".", "p", "d", "f">> /\ file_type = <<>>
  /\ sheet1 = EmptySheet /\ sheet2 = EmptySheet
  /\ Start("pdf_start")

WordPool == {<<"a">>, <<"b">>, <<"a", "b">>}

\* text inputs: one page per document, the words of the two pages vary
InitText ==
  /\ doc1 \in {<<[size |-> 1, words |-> ws, dis |-> NoDiff]>> : ws \in SeqsUpTo(WordPool, MaxWords)}
  /\ doc2 \in {<<[size |-> 1, words |-> ws, dis |-> NoDiff]>> : ws \in SeqsUpTo(WordPool, MaxWords)}
  /\ opts \in {[DefaultOpts EXCEPT !.output_path = o] : o \in BOOLEAN}
  /\ StartPdf

\* compare_pdfs on the text inputs
SpecText == InitText /\ [][NextPdf]_vars

\* dissimilarity maps of one or two rows and up to MaxSide columns, each value
\* 0 (the same) or 100 (no similarity)
DiffMaps == UNION {[1..h -> [1..w -> {0, 100}]] : h \in 1..2, w \in 1..MaxSide}

\* visual inputs: one page per document; the map 1 - SSIM of the page pair,
\* the threshold and the box size vary
InitVisual ==
  /\ doc1 \in {<<[size |-> 1, words |-> <<>>, dis |-> d]>> : d \in DiffMaps}
  /\ doc2 = <<[size |-> 1, words |-> <<>>, dis |-> doc1[1].dis]>>
  /\ opts \in {[DefaultOpts EXCEPT !.threshold = t, !.box_size = b] :
                 t \in {0, 50, DefaultThreshold}, b \in {1, 2, DefaultBoxSize}}
  /\ StartPdf

\* compare_pdfs on the visual inputs
SpecVisual == InitVisual /\ [][NextPdf]_vars

\* ---- inputs of the whole program, entered through run_compare

Callbacks == {NoCallback, Callback(101), Callback(1), Callback(30), Callback(100)}

LongSheet == KeySheet([n \in 1..LongRows |-> N(<<"1">>)])

DotSheet == MkSheet(<< <<S(<<".">>), None>>, <<N(<<"1">>), S(<<"b">>)>> >>, 2)

CtlSheets ==
  {KeySheet(<<>>), KeySheet(<<N(<<"1">>), S(<<"A">>)>>), LongSheet, DotSheet,
   MkSheet(<< <<S(<<"b">>), S(<<"a">>)>>, <<N(<<"1">>), S(<<"b">>)>> >>, 2)}

xlsx == <<".", "x", "l", "s", "x">>

\* dispatch inputs: the number of files, the extension and the override vary
InitDispatch ==
  /\ nfiles \in 0..3
  /\ ext \in {xlsx, <<".", "P", "D", "F">>, <<".", "t", "x", "t">>}
  /\ file_type \in {<<>>, <<"E", "x", "c", "e", "l">>, Pdf, <<"c", "s", "v">>}
  /\ opts = DefaultOpts
  /\ sheet1 = KeySheet(<<N(<<"1">>)>>) /\ sheet2 = KeySheet(<<N(<<"1">>)>>)
  /\ doc1 = <<[size |-> 1, words |-> <<>>, dis |-> NoDiff]>> /\ doc2 = <<[size |-> 1, words |-> <<>>, dis |-> NoDiff]>>
  /\ Start("run_compare")

\* tabular control inputs: the mode, the callback, the output path, the key
\* header and the two sheets vary
InitExcelRun ==
  /\ nfiles = 2 /\ ext = xlsx /\ file_type = <<>>
  /\ opts \in {[DefaultOpts EXCEPT !.compare_mode = m, !.progress_cb = cb,
                                   !.output_path = o, !.key_header = k] :
                 m \in {"by_key", "by_row", "by_col"}, cb \in Callbacks,
                 o \in BOOLEAN, k \in {S(tId), S(<<".">>)}}
  /\ sheet1 \in CtlSheets /\ sheet2 \in CtlSheets
  /\ doc1 = <<>> /\ doc2 = <<>>
  /\ Start("run_compare")

Docs == SeqsUpTo([size : {1, 2}, words : {<<>>}, dis : {NoDiff}], MaxPages)

\* document control inputs: the callback, the output path and the pages vary
InitPdfRun ==
  /\ nfiles = 2 /\ ext = <<".", "p", "d", "f">> /\ file_type = <<>>
  /\ opts \in {[DefaultOpts EXCEPT !.progress_cb = cb, !.output_path = o] :
                 cb \in Callbacks, o \in BOOLEAN}
  /\ sheet1 = EmptySheet /\ sheet2 = EmptySheet
  /\ doc1 \in Docs /\ doc2 \in Docs
  /\ Start("run_compare")

Init == InitDispatch \/ InitExcelRun \/ InitPdfRun

Next == RunCompare \/ NextExcel \/ NextPdf

\* the whole program: run_compare and the engine it dispatches to
Spec == Init /\ [][Next]_vars

\* ------------------------------------------------------------------ claims

\* the steps at which rows_to_compare is built
Aligned == pc \in {"xl_rows", "done"}

\* the normalized key values of a sheet: the Normalizer's result for the text
\* of each non-empty cell of the key column below the header row
NormKeysOf(sheet, key) ==
  {_normalize_header(S(Str(Cell(sheet, r, key[2])))) :
     r \in {q \in (key[1] + 1)..sheet.max_row : ~IsEmptyValue(Cell(sheet, q, key[2]))}}

\* the normalized key of the row r of a sheet
NormKeyAt(sheet, key, r) == _normalize_header(S(Str(Cell(sheet, r, key[2]))))

\* the key an aligned row stands for
KeyOfAligned(row) ==
  IF row.r1 # 0 THEN NormKeyAt(sheet1, key1, row.r1) ELSE NormKeyAt(sheet2, key2, row.r2)

\* C2: in by_key mode there is exactly one aligned row per key of the union of
\* the two files' normalized key values; row1 is absent exactly for a key that
\* file 1 lacks and row2 exactly for a key that file 2 lacks, and a present
\* side is a row of its file carrying that key.
C2_ByKeyUnion ==
  (Aligned /\ opts.compare_mode = "by_key") =>
    LET K1 == NormKeysOf(sheet1, key1)
        K2 == NormKeysOf(sheet2, key2)
        rows == rows_to_compare
    IN /\ {KeyOfAligned(rows[n]) : n \in 1..Len(rows)} = K1 \cup K2
       /\ Len(rows) = Cardinality(K1 \cup K2)
       /\ \A n \in 1..Len(rows) :
            /\ rows[n].r1 = 0 <=> KeyOfAligned(rows[n]) \notin K1
            /\ rows[n].r2 = 0 <=> KeyOfAligned(rows[n]) \notin K2
            /\ rows[n].r1 # 0 =>
                 /\ rows[n].r1 \in (key1[1] + 1)..sheet1.max_row
                 /\ ~IsEmptyValue(Cell(sheet1, rows[n].r1, key1[2]))
            /\ rows[n].r2 # 0 =>
                 /\ rows[n].r2 \in (key2[1] + 1)..sheet2.max_row
                 /\ ~IsEmptyValue(Cell(sheet2, rows[n].r2, key2[2]))
                 /\ NormKeyAt(sheet2, key2, rows[n].r2) = KeyOfAligned(rows[n])

\* C2 witness: a finished by_key run with a key of file 1 only, a key of
\* file 2 only and a key of both
C2_Witness ==
  /\ pc = "done" /\ opts.compare_mode = "by_key"
  /\ \E a, b, c \in 1..Len(rows_to_compare) :
       /\ rows_to_compare[a].r1 # 0 /\ rows_to_compare[a].r2 = 0
       /\ rows_to_compare[b].r1 = 0 /\ rows_to_compare[b].r2 # 0
       /\ rows_to_compare[c].r1 # 0 /\ rows_to_compare[c].r2 # 0

\* the rows below the header whose key cell normalizes to k
RowsWithKey(sheet, key, k) ==
  {r \in (key[1] + 1)..sheet.max_row :
     ~IsEmptyValue(Cell(sheet, r, key[2])) /\ NormKeyAt(sheet, key, r) = k}

SetMin(set) == CHOOSE m \in set : \A n \in set : m <= n

\* C3: build_row_dict maps each normalized key to the row of its first
\* occurrence below the header row (the smallest row carrying the key).
C3_FirstOccurrence ==
  pc \in {"xl_header_map", "xl_align", "xl_rows", "done"} =>
    /\ \A n \in 1..Len(row_dict1) :
         row_dict1[n].val = SetMin(RowsWithKey(sheet1, key1, row_dict1[n].key))
    /\ \A n \in 1..Len(row_dict2) :
         row_dict2[n].val = SetMin(RowsWithKey(sheet2, key2, row_dict2[n].key))

\* the output cells written so far
OutCells == {out[n].cells[m] : <<n, m>> \in
               {nm \in (1..Len(out)) \X (1..Len(header_map)) : nm[1] <= Len(out)}}

\* the Normalizer's result for a cell value's text
Normalized(v) == _normalize_header(S(Str(v)))

\* the trimmed text of a cell value
Trimmed(v) == Strip(Str(v))

\* C4 as stated: two non-empty values with equal normalize() results are
\* classified Match on both sides.
C4_NormalizerEquality ==
  \A cell \in OutCells :
    (~IsEmptyValue(cell.val1) /\ ~IsEmptyValue(cell.val2)
       /\ Normalized(cell.val1) = Normalized(cell.val2))
      => (cell.fill1 = "match" /\ cell.fill2 = "match")

\* C4 amended: cell equality is equality of the trimmed str() texts: two
\* non-empty values are classified Match on both sides exactly when their
\* texts, stripped of leading and trailing whitespace, are the same; otherwise
\* the file-1 side is Removed and the file-2 side Added.
C4_TrimmedEquality ==
  \A cell \in OutCells :
    (~IsEmptyValue(cell.val1) /\ ~IsEmptyValue(cell.val2)) =>
      IF Trimmed(cell.val1) = Trimmed(cell.val2)
      THEN cell.fill1 = "match" /\ cell.fill2 = "match"
      ELSE cell.fill1 = "del" /\ cell.fill2 = "add"

\* C4 witness: two non-empty values that differ only by surrounding
\* whitespace are a Match, and two that differ only in case are not
C4_Witness ==
  /\ \E cell \in OutCells :
       /\ ~IsEmptyValue(cell.val1) /\ ~IsEmptyValue(cell.val2)
       /\ cell.val1 # cell.val2 /\ cell.fill1 = "match"
  /\ \E cell \in OutCells :
       /\ ~IsEmptyValue(cell.val1) /\ ~IsEmptyValue(cell.val2)
       /\ Normalized(cell.val1) = Normalized(cell.val2) /\ cell.fill1 = "del"

Marked(fill) == fill \in {"match", "del", "add"}

\* the three verdicts of C5 that hold as stated
VerdictRules(cell, e1, e2) ==
  /\ cell.fill1 \in {"none", "alt", "match", "del"}
  /\ cell.fill2 \in {"none", "alt", "match", "add"}
  /\ (e1 /\ e2) => (~Marked(cell.fill1) /\ ~Marked(cell.fill2))
  /\ cell.fill1 = "match" <=> cell.fill2 = "match"
  /\ (~(e1 /\ e2) /\ Trimmed(cell.val1) = Trimmed(cell.val2))
       => (cell.fill1 = "match" /\ cell.fill2 = "match")
  /\ (~e1 /\ ~e2 /\ Trimmed(cell.val1) # Trimmed(cell.val2))
       => (cell.fill1 = "del" /\ cell.fill2 = "add")

\* C5 as stated: both empty -> Blank; equal and not both empty -> Match on both
\* sides; otherwise each non-empty side is marked, and a value present on only
\* one side marks only that side.
C5_VerdictAsStated ==
  \A cell \in OutCells :
    LET e1 == IsEmptyValue(cell.val1)
        e2 == IsEmptyValue(cell.val2)
    IN /\ VerdictRules(cell, e1, e2)
       /\ (~e1 /\ e2) => (cell.fill1 = "del" /\ ~Marked(cell.fill2))
       /\ (e1 /\ ~e2) => (~Marked(cell.fill1) /\ cell.fill2 = "add")

\* C5 amended: as stated, except that a value present on only one side marks
\* only that side when its trimmed text is not empty; a whitespace-only value
\* facing an empty or absent value compares equal to it and both sides are Match.
C5_Verdict ==
  \A cell \in OutCells :
    LET e1 == IsEmptyValue(cell.val1)
        e2 == IsEmptyValue(cell.val2)
    IN /\ VerdictRules(cell, e1, e2)
       /\ (~e1 /\ e2 /\ Trimmed(cell.val1) # <<>>) => (cell.fill1 = "del" /\ ~Marked(cell.fill2))
       /\ (e1 /\ ~e2 /\ Trimmed(cell.val2) # <<>>) => (~Marked(cell.fill1) /\ cell.fill2 = "add")
       /\ (~e1 /\ e2 /\ Trimmed(cell.val1) = <<>>) => (cell.fill1 = "match" /\ cell.fill2 = "match")
       /\ (e1 /\ ~e2 /\ Trimmed(cell.val2) = <<>>) => (cell.fill1 = "match" /\ cell.fill2 = "match")

\* C5 witness: a finished run whose output holds a Blank pair, a Match pair, a
\* pair marked on both sides and a pair marked on one side only
C5_Witness ==
  /\ pc = "done"
  /\ \E a, b, c, d \in OutCells :
       /\ IsEmptyValue(a.val1) /\ IsEmptyValue(a.val2) /\ ~Marked(a.fill1)
       /\ b.fill1 = "match" /\ b.fill2 = "match"
       /\ c.fill1 = "del" /\ c.fill2 = "add"
       /\ ~Marked(d.fill1) /\ d.fill2 = "add"

\* the combined score of a header pair, from the two header maps and sheets
PairScore(h1, h2) ==
  Score(opts.weight_name, opts.weight_data,
        _name_ratio(Val(headers1_row, h1).disp, Val(headers2_row, h2).disp),
        _jaccard(_sample_column_values(sheet1, key1[1], Val(headers1_row, h1).col, opts.sample_size),
                 _sample_column_values(sheet2, key2[1], Val(headers2_row, h2).col, opts.sample_size)))

AtLeastMin(score) == score[1] * 100 >= opts.min_score * score[2]

\* C1: the column match is one-to-one: no file-1 header is a key twice, no
\* file-2 header is a value twice, every pair joins a header of file 1 to a
\* header of file 2 and has a combined score >= min_score.
C1_OneToOne ==
  /\ \A a, b \in 1..Len(col_match) :
       a # b => (col_match[a].key # col_match[b].key /\ col_match[a].val # col_match[b].val)
  /\ \A a \in 1..Len(col_match) :
       /\ Has(headers1_row, col_match[a].key)
       /\ Has(headers2_row, col_match[a].val)
       /\ AtLeastMin(PairScore(col_match[a].key, col_match[a].val))

\* C1 witness: two pairs are matched and a third pair, scoring at least
\* min_score, is left out because its file-2 header is taken
C1_Witness ==
  /\ pc = "xl_header_map"
  /\ Len(col_match) >= 2
  /\ \E a \in 1..Len(col_match), h1 \in Keys(headers1_row) :
       /\ ~Has(col_match, h1)
       /\ AtLeastMin(PairScore(h1, col_match[a].val))

\* the cells a header location may fall on: the non-empty str cells whose
\* normalized text is the target
KeyCells(sheet, target) ==
  {rc \in (1..sheet.max_row) \X (1..sheet.max_column) :
     LET v == Cell(sheet, rc[1], rc[2])
     IN v.k = "str" /\ v.s # <<>> /\ _normalize_header(v) = target}

\* the non-empty textual cells of a row
TextualCells(sheet, r) ==
  Cardinality({c \in 1..sheet.max_column :
                 Cell(sheet, r, c).k = "str" /\ Strip(Cell(sheet, r, c).s) # <<>>})

\* the tier the two-tier policy selects from
Tier(sheet, target, top) ==
  IF \E rc \in KeyCells(sheet, target) : rc[1] <= top
  THEN {rc \in KeyCells(sheet, target) : rc[1] <= top}
  ELSE KeyCells(sheet, target)

\* C6: the located cell is in the top rows whenever a key cell is; within its
\* tier it has the highest count of textual cells in its row, then the
\* smallest row, then the smallest column.
C6_TwoTier ==
  key1 # NotFound =>
    LET target == _normalize_header(opts.key_header)
        tier == Tier(sheet1, target, opts.top_rows_prefer)
    IN /\ key1 \in tier
       /\ \A rc \in tier :
            \/ TextualCells(sheet1, key1[1]) > TextualCells(sheet1, rc[1])
            \/ /\ TextualCells(sheet1, key1[1]) = TextualCells(sheet1, rc[1])
               /\ key1[1] < rc[1]
            \/ /\ TextualCells(sheet1, key1[1]) = TextualCells(sheet1, rc[1])
               /\ key1[1] = rc[1]
               /\ key1[2] <= rc[2]

\* C6 witness: the key is located in the top rows although a row below them
\* holds the key with more textual cells
C6_Witness ==
  /\ key1 # NotFound
  /\ key1[1] <= opts.top_rows_prefer
  /\ \E rc \in KeyCells(sheet1, _normalize_header(opts.key_header)) :
       /\ rc[1] > opts.top_rows_prefer
       /\ TextualCells(sheet1, rc[1]) > TextualCells(sheet1, key1[1])

\* no cell of the sheet has normalized text equal to the key header
NoKeyCell(sheet) ==
  \A r \in 1..sheet.max_row, c \in 1..sheet.max_column :
    Cell(sheet, r, c).k = "none"
      \/ Normalized(Cell(sheet, r, c)) # _normalize_header(opts.key_header)

\* C7: when a grid holds no cell equal to the key header, compare_excel_files
\* fails with HeaderNotFound at the location step and nothing after it is
\* done: no header map, column match, header list, aligned row, output row,
\* artifact or result.
C7_HeaderNotFound ==
  (pc \notin {"run_compare", "xl_start", "xl_locate"} /\ passed >= 2
     /\ (NoKeyCell(sheet1) \/ NoKeyCell(sheet2))) =>
    /\ pc = "failed" /\ error = "HeaderNotFound"
    /\ headers1_row = <<>> /\ headers2_row = <<>> /\ row_dict1 = <<>> /\ row_dict2 = <<>>
    /\ col_match = <<>> /\ header_list = <<>> /\ header_map = <<>>
    /\ rows_to_compare = <<>> /\ out = <<>>
    /\ artifact = "none" /\ result = "none" /\ meta = -1

\* C7 witness: the run failed on the second grid after locating the key in the first
C7_Witness ==
  /\ pc = "failed" /\ error = "HeaderNotFound"
  /\ ~NoKeyCell(sheet1) /\ NoKeyCell(sheet2) /\ key1 # NotFound

\* C8: the values passed to the progress callback never decrease, stay within
\* 0..100 and end at 100 when the run succeeds.
C8_ProgressMonotone ==
  /\ \A k \in 1..(Len(progress_log) - 1) : progress_log[k] <= progress_log[k + 1]
  /\ \A k \in 1..Len(progress_log) : progress_log[k] \in 0..100
  /\ (pc = "done" /\ opts.progress_cb.callable) =>
       (progress_log # <<>> /\ progress_log[Len(progress_log)] = 100)

\* C9 as stated: once the callback has raised at a milestone the engine
\* performs no later milestone, writes no artifact and does not succeed.
C9_AbortStops ==
  raised_at > 0 =>
    (Len(progress_log) = raised_at /\ artifact = "none" /\ pc # "done")

\* C9 amended: an exception raised by the progress callback is caught and
\* dropped: it never ends the call, the later milestones are still reported,
\* and the run ends as it would without the exception, with its result and
\* (for a given output path) its artifact.
C9_AbortSwallowed ==
  /\ error # "CallbackError"
  /\ raised_at > 0 => (pc = "failed" => error \in {"HeaderNotFound", "NoHeadersFound",
                                                 "InvalidAlignmentMode", "PageFailure"})
  /\ (raised_at > 0 /\ pc = "done") =>
       /\ progress_log[Len(progress_log)] = 100
       /\ result # "none" /\ meta >= 0
       /\ opts.output_path => artifact = "written"

\* C9 witness: the callback raised at a milestone, later milestones followed
\* and the run finished with its artifact written
C9_Witness ==
  /\ raised_at > 0 /\ raised_at < Len(progress_log)
  /\ pc = "done" /\ artifact = "written"

\* C10: a failed comparison has written no artifact, and an artifact is
\* written only by a run that finished every row and every page.
C10_NoPartialWrite ==
  /\ pc = "failed" => artifact = "none"
  /\ artifact # "none" =>
       /\ pc = "done" /\ error = ""
       /\ Len(out) = Len(rows_to_compare)
       /\ tmp_dir # "none" => Len(canvas) = NumPages

\* C10 witness: a run that failed on a page after other pages were drawn
C10_Witness ==
  /\ pc = "failed" /\ error = "PageFailure" /\ Len(canvas) >= 1 /\ opts.output_path

\* C11: a comparison given fewer than two files fails with TooFewFiles, having
\* opened no input file and written no artifact.
C11_TooFewFiles ==
  (nfiles < 2 /\ pc \in {"done", "failed"}) =>
    /\ pc = "failed" /\ error = "TooFewFiles"
    /\ loaded = 0 /\ artifact = "none" /\ result = "none"

\* the keys of two aligned rows are in the order the claim describes
InKeyOrder(x, y) ==
  IF IsFloat(x) /\ IsFloat(y) THEN FloatVal(x) <= FloatVal(y)
  ELSE IF IsFloat(x) THEN TRUE
  ELSE IF IsFloat(y) THEN FALSE
  ELSE ~StrLess(y, x)

C13_ByRowOffsets ==
  (Aligned /\ opts.compare_mode = "by_row") =>
    LET n1 == sheet1.max_row - key1[1]
        n2 == sheet2.max_row - key2[1]
    IN /\ Len(rows_to_compare) = (IF n1 >= n2 THEN n1 ELSE n2)
       /\ \A k \in 1..Len(rows_to_compare) :
            /\ rows_to_compare[k].r1 = (IF k <= n1 THEN key1[1] + k ELSE 0)
            /\ rows_to_compare[k].r2 = (IF k <= n2 THEN key2[1] + k ELSE 0)

\* C13 witness: a finished by_row run whose header rows are at different
\* positions and whose first file is the shorter one below the header
C13_Witness ==
  /\ pc = "done" /\ opts.compare_mode = "by_row"
  /\ key1[1] # key2[1]
  /\ \E k \in 1..Len(rows_to_compare) :
       rows_to_compare[k].r1 = 0 /\ rows_to_compare[k].r2 = key2[1] + k
  /\ rows_to_compare[1].r1 = key1[1] + 1

\* C14: every aligned row has a side present, in either mode, and
\* rows_compared is the number of aligned rows written to the output.
C14_RowPresent ==
  /\ \A n \in 1..Len(rows_to_compare) :
       rows_to_compare[n].r1 # 0 \/ rows_to_compare[n].r2 # 0
  /\ Len(out) <= Len(rows_to_compare)
  /\ pc = "done" => (meta = Len(out) /\ Len(out) = Len(rows_to_compare))

\* C14 witness: a finished run with a left-absent row and a right-absent row
C14_Witness ==
  /\ pc = "done" /\ meta >= 2
  /\ \E n, m \in 1..Len(rows_to_compare) :
       /\ rows_to_compare[n].r1 = 0 /\ rows_to_compare[n].r2 # 0
       /\ rows_to_compare[m].r1 # 0 /\ rows_to_compare[m].r2 = 0

\* the headers of a header map that are in `keep`, from the left-most column on
RECURSIVE InColumnOrder(_, _, _, _)
InColumnOrder(hmap, keep, c, max_column) ==
  IF c > max_column THEN <<>>
  ELSE LET here == {n \in 1..Len(hmap) : hmap[n].val.col = c /\ hmap[n].key \in keep}
       IN (IF here = {} THEN <<>> ELSE <<hmap[CHOOSE n \in here : TRUE].key>>)
            \o InColumnOrder(hmap, keep, c + 1, max_column)

\* a sequence without its repeated elements, the first occurrences kept
RECURSIVE Dedup(_, _)
Dedup(seq, seen) ==
  IF seq = <<>> THEN <<>>
  ELSE IF seq[1] \in seen THEN Dedup(Tail(seq), seen)
  ELSE <<seq[1]>> \o Dedup(Tail(seq), seen \cup {seq[1]})

\* the header list the claim describes, the file-2 headers in `matched` left out
ListedHeaders(matched) ==
  LET key == _normalize_header(opts.key_header)
      first == IF Has(headers1_row, key) \/ Has(headers2_row, key) THEN <<key>> ELSE <<>>
      h1 == InColumnOrder(headers1_row, Keys(headers1_row) \ {key}, 1, sheet1.max_column)
      h2 == InColumnOrder(headers2_row, Keys(headers2_row) \ matched, 1, sheet2.max_column)
  IN Dedup(first \o h1 \o h2, {})

HeaderListBuilt == pc \in {"xl_header_map", "xl_align", "xl_rows", "done"}

\* C15 as stated: the header list has no duplicates and is the key header, then
\* the other file-1 headers by column, then by column the file-2 headers that
\* are matched to no file-1 header.
C15_HeaderListAsStated ==
  HeaderListBuilt =>
    header_list = ListedHeaders({col_match[n].val : n \in 1..Len(col_match)})

\* C16: a word occurrence of a page is highlighted exactly when no word of
\* the other page has its text, whatever the positions and the counts.
C16_WordIdentity ==
  \A n \in 1..Len(canvas) :
    LET w1 == doc1[canvas[n].page + 1].words
        w2 == doc2[canvas[n].page + 1].words
    IN /\ canvas[n].hl1 = {k \in 1..Len(w1) : \A m \in 1..Len(w2) : w2[m] # w1[k]}
       /\ canvas[n].hl2 = {k \in 1..Len(w2) : \A m \in 1..Len(w1) : w1[m] # w2[k]}

\* C16 witness: a page on which a word stands twice and at another position
\* than its single occurrence on the other page, unhighlighted, next to a
\* highlighted word that contains it
C16_Witness ==
  /\ pc = "done" /\ Len(canvas) = 1
  /\ doc1[1].words = << <<"a">>, <<"a", "b">>, <<"a">> >>
  /\ doc2[1].words = << <<"b">>, <<"a">> >>
  /\ canvas[1].hl1 = {2} /\ canvas[1].hl2 = {1}

\* C17: the output pages are the page indices 0, 1, ... in increasing order,
\* each once; a finished run has emitted exactly min(n1, n2) of them, without
\* error whatever the longer document holds, and pages_compared is their number.
C17_PagesCompared ==
  /\ \A n \in 1..Len(canvas) : canvas[n].page = n - 1
  /\ Len(canvas) <= Min(Len(doc1), Len(doc2))
  /\ (pc = "done" /\ tmp_dir # "none") =>
       (Len(canvas) = Min(Len(doc1), Len(doc2)) /\ meta = Len(canvas) /\ error = "")

\* C17 witness: a finished run on documents of different lengths with at
\* least two output pages
C17_Witness ==
  /\ pc = "done" /\ tmp_dir # "none"
  /\ Len(doc1) > Len(doc2) /\ Len(canvas) >= 2 /\ meta = Len(doc2)

\* C18: normalization is idempotent, normalize(normalize(x)) = normalize(x)
\* for every text x, and None and the empty text normalize to the empty text;
\* so a header cell holding the normalized key header is located.
C18_Idempotent ==
  /\ _normalize_header(S(_normalize_header(opts.key_header))) = _normalize_header(opts.key_header)
  /\ opts.key_header \in {None, S(<<>>)} => _normalize_header(opts.key_header) = <<>>
  /\ (pc = "failed" /\ error = "HeaderNotFound" /\ key1 = NotFound)
       => _normalize_header(opts.key_header) = <<>>

\* the origin of the block a pixel <<row, col>> falls in
BlockOf(px, box_size) ==
  <<((px[2] - 1) \div box_size) * box_size, ((px[1] - 1) \div box_size) * box_size>>

\* C19: the blocks of box_size x box_size pixels cover every pixel once, the
\* last row and column of blocks partial; a block is flagged exactly when the
\* mean dissimilarity of its pixels exceeds the threshold; a map that is 0
\* everywhere has no flagged block for a threshold > 0.
C19_BlocksFlagged ==
  \A n \in 1..Len(canvas) :
    LET diff_map == doc1[canvas[n].page + 1].dis
        pixels == (1..Len(diff_map)) \X (1..Len(diff_map[1]))
        blocks == {BlockOf(px, opts.box_size) : px \in pixels}
        inside(b) == {px \in pixels : BlockOf(px, opts.box_size) = b}
    IN /\ canvas[n].boxes =
            {b \in blocks : SumOver(diff_map, inside(b)) > opts.threshold * Cardinality(inside(b))}
       /\ ((\A px \in pixels : diff_map[px[1]][px[2]] = 0) /\ opts.threshold > 0)
            => canvas[n].boxes = {}

\* C19 witness: a 2 x 3 map in blocks of 2 x 2 with the last block partial
\* and flagged, and a full block whose mean equals the threshold, not flagged
C19_Witness ==
  /\ pc = "done" /\ opts.box_size = 2 /\ opts.threshold = 50
  /\ doc1[1].dis = << <<0, 100, 100>>, <<0, 100, 100>> >>
  /\ canvas[1].boxes = {<<2, 0>>}

\* the rows a sample is taken from: the non-empty cells of the column among
\* the first 5 * n rows below the header row, the first n of them
SampledRows(sheet, header_row, col, n) ==
  LET filled == {r \in (header_row + 1)..sheet.max_row :
                   r <= header_row + 5 * n /\ ~IsEmptyValue(Cell(sheet, r, col))}
  IN {r \in filled : Cardinality({q \in filled : q < r}) < n}

\* smp holds, in row order, F of the cells of the column at `rows`
SampleIs(smp, sheet, col, rows, F(_)) ==
  /\ Len(smp) = Cardinality(rows)
  /\ \A r \in rows : smp[Cardinality({q \in rows : q <= r})] = F(Cell(sheet, r, col))

Sample1 == _sample_column_values(sheet1, key1[1], 2, opts.sample_size)
Sample2 == _sample_column_values(sheet2, key2[1], 2, opts.sample_size)
Rows1 == SampledRows(sheet1, key1[1], 2, opts.sample_size)
Rows2 == SampledRows(sheet2, key2[1], 2, opts.sample_size)

\* the data columns are matched: their data score is 1.0
DataMatched == Has(col_match, <<"a">>) /\ Val(col_match, <<"a">>) = <<"c">>

\* C20 as stated: a sample holds at most sample_size values, the Normalizer's
\* results for the non-empty cells in row order within the first
\* sample_size * 5 rows below the header; columns whose sampled values have
\* the same normalized texts have a data score of 1.0.
C20_NormalizedSample ==
  pc = "xl_header_map" =>
    /\ Len(Sample2) <= opts.sample_size
    /\ SampleIs(Sample1, sheet1, 2, Rows1, Normalized)
    /\ SampleIs(Sample2, sheet2, 2, Rows2, Normalized)
    /\ {Normalized(Cell(sheet1, r, 2)) : r \in Rows1} = {Normalized(Cell(sheet2, r, 2)) : r \in Rows2}
         => DataMatched

\* C20 amended: a sample holds at most sample_size values, the str() texts,
\* trimmed of surrounding whitespace only, of the non-empty cells in row order
\* within the first sample_size * 5 rows below the header; two columns have a
\* data score of 1.0 exactly when their sampled trimmed texts are the same
\* sets, so values that differ in case or punctuation do not match.
C20_TrimmedSample ==
  pc = "xl_header_map" =>
    /\ Len(Sample1) <= opts.sample_size /\ Len(Sample2) <= opts.sample_size
    /\ SampleIs(Sample1, sheet1, 2, Rows1, Trimmed)
    /\ SampleIs(Sample2, sheet2, 2, Rows2, Trimmed)
    /\ DataMatched <=>
         {Trimmed(Cell(sheet1, r, 2)) : r \in Rows1} = {Trimmed(Cell(sheet2, r, 2)) : r \in Rows2}

\* C20 witness: the sample of file 2 stops at sample_size values and leaves a
\* non-empty cell out; it differs from file 1's sample in case only, and the
\* columns are not matched
C20_Witness ==
  /\ pc = "xl_header_map" /\ opts.sample_size = 1
  /\ Sample1 = << <<"b">> >> /\ Sample2 = << <<"B">> >>
  /\ sheet2.max_row = 3 /\ ~DataMatched

\* the case the claim names: no override and an extension other than
\* .xlsx, .xls and .pdf in any case
NoOverrideUnknownExt ==
  /\ file_type = <<>>
  /\ Lower(ext) \notin {xlsx, <<".", "x", "l", "s">>, <<".", "p", "d", "f">>}

\* the engine the claim expects: by the override when one is given, else by
\* the extension
ClaimedEngine ==
  IF file_type # <<>> THEN Lower(file_type) ELSE EXT_TO_TYPE(ext)

\* C21: run_compare fails with UnsupportedFileType, with no engine invoked,
\* exactly when no override is given and the extension is not .xlsx, .xls or
\* .pdf in any case; otherwise exactly one engine is entered, the tabular one
\* for excel and the document one for pdf, with at most the first two files.
C21_Dispatch ==
  pc # "run_compare" =>
    /\ error = "UnsupportedFileType" <=> NoOverrideUnknownExt
    /\ NoOverrideUnknownExt => pc = "failed" /\ loaded = 0 /\ artifact = "none"
    /\ ~NoOverrideUnknownExt =>
         /\ error # "IndexError" /\ passed = Min(nfiles, 2)
         /\ pc = "xl_start" => ClaimedEngine = Excel
         /\ pc = "pdf_start" => ClaimedEngine = Pdf

\* the column match holds the pair (h1, h2)
Mapped(h1, h2) == Has(col_match, h1) /\ Val(col_match, h1) = h2

\* h1 or h2 is matched to a partner at a pair score of at least `score`
Blocked(h1, h2, score) ==
  \/ /\ Has(col_match, h1)
     /\ ~FracLess(PairScore(h1, Val(col_match, h1)), score)
  \/ \E a \in 1..Len(col_match) :
       /\ col_match[a].val = h2
       /\ ~FracLess(PairScore(col_match[a].key, h2), score)

\* C22: the greedy column match is stable and maximal in the score order:
\* every header pair scoring at least min_score that is not in the match has
\* one of its headers matched to a partner at a pair score at least as high;
\* so no two unmatched headers score at least min_score together, a score of
\* exactly min_score included.
C22_StableMaximal ==
  pc = "xl_header_map" =>
    \A h1 \in Keys(headers1_row), h2 \in Keys(headers2_row) :
      (AtLeastMin(PairScore(h1, h2)) /\ ~Mapped(h1, h2)) =>
        Blocked(h1, h2, PairScore(h1, h2))

\* C22 witness: a pair scoring exactly min_score > 0 is matched, and another pair
\* scoring at least min_score is left out, both of its headers being matched
\* to other partners
C22_Witness ==
  /\ pc = "xl_header_map" /\ opts.min_score > 0
  /\ \E a \in 1..Len(col_match) :
       FracEq(PairScore(col_match[a].key, col_match[a].val), <<opts.min_score, 100>>)
  /\ \E h1 \in Keys(headers1_row), h2 \in Keys(headers2_row) :
       /\ AtLeastMin(PairScore(h1, h2)) /\ ~Mapped(h1, h2)
       /\ Has(col_match, h1) /\ h2 \in {col_match[a].val : a \in 1..Len(col_match)}

\* C23: when compare_pdfs is called without an output_path and returns, the
\* auto-named artifact exists at the returned path: the cleanup of the
\* temporary directory has not deleted it.
C23_ArtifactKept ==
  (pc = "done" /\ tmp_dir # "none" /\ ~opts.output_path) =>
    /\ result = "path"
    /\ artifact = "written"

\* header_map is built
HeaderMapBuilt == pc \in {"xl_align", "xl_rows", "done"}

\* C24: the key header's output column pair reads file 1's located key column
\* and file 2's located key column, the columns the two row indexes are built
\* on, whatever the column match holds.
C24_KeyPair ==
  HeaderMapBuilt =>
    \A n \in 1..Len(header_map) :
      header_map[n].hnorm = _normalize_header(opts.key_header) =>
        /\ header_map[n].c1 = key1[2]
        /\ header_map[n].c2 = key2[2]

\* the output column pairs that read column c of file 1, of file 2
ReadBy1(c) == {n \in 1..Len(header_map) : header_map[n].c1 = c}
ReadBy2(c) == {n \in 1..Len(header_map) : header_map[n].c2 = c}

\* C25: every header column of file 1 and every header column of file 2 is
\* the source of exactly one output column pair: none is read by two pairs
\* and none is dropped.
C25_EachColumnOnce ==
  HeaderMapBuilt =>
    /\ \A h \in Keys(headers1_row) : Cardinality(ReadBy1(Val(headers1_row, h).col)) = 1
    /\ \A h \in Keys(headers2_row) : Cardinality(ReadBy2(Val(headers2_row, h).col)) = 1

====
